---- MODULE Spec2Model ----
(***************************************************************************)
(* A model of winston-cloudwatchlogs: the LogQueue (truncation and batch   *)
(* slicing), the LogStreamGenerator (hourly stream name and existence      *)
(* cache) and the CloudWatchLogsTransportStream (timer, flush lock, flush  *)
(* cycle, close).                                                          *)
(*                                                                         *)
(* Strings.  A JavaScript string is a sequence of UTF-16 code units.  The  *)
(* limits of the queue are a mebibyte, so a string is kept run-length      *)
(* encoded: a sequence of runs [c |-> character, n |-> repetitions], no    *)
(* run empty, no two neighbouring runs of the same character.  The         *)
(* characters are "x" and the characters of the truncation marker (one     *)
(* code unit, one UTF-8 byte each), "L2" (a 2-byte character such as the   *)
(* pound sign, one code unit), "J3" (a 3-byte character such as a kanji,   *)
(* one code unit), "E4" (an emoji: a surrogate pair, two code units, four  *)
(* bytes) and "HI" (a high surrogate without its low surrogate, one code   *)
(* unit, which TextEncoder encodes as U+FFFD, three bytes).                *)
(*                                                                         *)
(* Queue.  The queue is kept run-length encoded too: a run                 *)
(* [message, timestamp, first, n] stands for n consecutive events with the *)
(* same message and timestamp; `first` is the ordinal of the first of them *)
(* among all events ever created (the identity of the event objects).      *)
(***************************************************************************)
EXTENDS Integers, Sequences, FiniteSets, TLC

VARIABLES
    queue,      \* LogQueue.#queue
    nextId,     \* number of LogEvent objects created so far, plus one
    calls,      \* number of calls that added to the queue so far
    now,        \* Date.now(), in milliseconds from 2025-01-01T00:00Z
    op,         \* the queue operation that ran last
    arg,        \* the message passed to the add call (pending or last)
    ret,        \* what the last getNextBatch call returned
    snapshot,   \* the queue contents when the current drain loop started
    drained,    \* concatenation of the batches returned since then
    resolutions,    \* the getCurrentLogStreamName calls made on the generator alone
    twin,       \* the other instance of a comparison of two instances
    inst,       \* "none" before create, "live" once created, "failed"
    opts,       \* the options the instance was created with
    timer,      \* #flushTimer: "none", "running" or "cleared"
    lock,       \* the #flush invocation that holds the flush lock, or 0
    waitQ,      \* the #flush invocations queued on the flush lock, in order
    flush,      \* the #flush invocations so far, in the order they were made
    checkedStreams, \* LogStreamGenerator.#checkedStreams
    remoteCalls,    \* every client.send call so far, with its outcome
    acks,       \* calls of the callback of log
    flushErrors,    \* console.error("Failed to flush logs to CloudWatch:")
    destroyed   \* client.destroy() has been called

qvars == <<queue, nextId, calls, now, op, arg, ret, snapshot, drained, resolutions,
          twin>>

\* the ghost variables of the queue specification
gvars == <<op, arg, ret, snapshot, drained, resolutions, twin>>

tvars == <<inst, opts, timer, lock, waitQ, flush, checkedStreams, remoteCalls,
           acks, flushErrors, destroyed>>

vars == <<queue, nextId, calls, now, op, arg, ret, snapshot, drained, resolutions,
          twin,
          inst, opts, timer, lock, waitQ, flush, checkedStreams, remoteCalls,
          acks, flushErrors, destroyed>>

-----------------------------------------------------------------------------
(* Program constants: log-queue.ts                                         *)

MAX_BATCH_SIZE == 1048576
MAX_LOG_EVENT_SIZE == 1048576
MAX_EVENTS_PER_BATCH == 10000
EVENT_OVERHEAD == 26

(* Bounds of the model                                                     *)

MaxAdds == 3          \* add calls in a run of the queue specification
MaxInputs == 5        \* inputs of a run of the transport specification: log
                      \* calls, timer ticks, close calls, failing remote
                      \* calls and milliseconds of the clock, in any mix

\* Time is counted in milliseconds from 2025-01-01T00:00:00.000Z (Date.now()
\* minus 1735689600000), which keeps it within 32-bit integers.
\* The clock starts at 2025-01-02T03:59:59.999Z, the last millisecond of a
\* UTC hour.
StartTime == (24 + 4) * 60 * 60 * 1000 - 1

Min(a, b) == IF a < b THEN a ELSE b
Max(a, b) == IF a > b THEN a ELSE b

-----------------------------------------------------------------------------
(* Strings                                                                 *)

\* code units of one character
UnitsOf(c) == IF c = "E4" THEN 2 ELSE 1

\* UTF-8 bytes of one character, as TextEncoder produces them
BytesOf(c) ==
    CASE c = "L2" -> 2
      [] c = "J3" -> 3
      [] c = "E4" -> 4
      [] c = "HI" -> 3
      [] OTHER -> 1

Rep(c, n) == IF n = 0 THEN <<>> ELSE <<[c |-> c, n |-> n]>>

\* s + t
Concat(s, t) ==
    IF s = <<>> THEN t
    ELSE IF t = <<>> THEN s
    ELSE IF s[Len(s)].c = t[1].c
         THEN SubSeq(s, 1, Len(s) - 1)
              \o <<[c |-> t[1].c, n |-> s[Len(s)].n + t[1].n]>>
              \o Tail(t)
         ELSE s \o t

\* s.length: UTF-16 code units
RECURSIVE StrLength(_)
StrLength(s) ==
    IF s = <<>> THEN 0 ELSE Head(s).n * UnitsOf(Head(s).c) + StrLength(Tail(s))

\* encoder.encode(s).length: UTF-8 bytes
RECURSIVE EncodeLength(_)
EncodeLength(s) ==
    IF s = <<>> THEN 0 ELSE Head(s).n * BytesOf(Head(s).c) + EncodeLength(Tail(s))

\* s.substring(0, k) for 0 <= k: the first k code units.  A cut inside a
\* surrogate pair keeps the high surrogate alone.
RECURSIVE Substring(_, _)
Substring(s, k) ==
    IF k <= 0 \/ s = <<>> THEN <<>>
    ELSE LET r == Head(s)
             u == UnitsOf(r.c)
         IN IF k >= r.n * u
            THEN Concat(<<r>>, Substring(Tail(s), k - r.n * u))
            ELSE Concat(Rep(r.c, k \div u), Rep("HI", k % u))

\* s.endsWith(t)
RECURSIVE EndsWith(_, _)
EndsWith(s, t) ==
    IF t = <<>> THEN TRUE
    ELSE IF s = <<>> THEN FALSE
    ELSE LET a == s[Len(s)]
             b == t[Len(t)]
         IN /\ a.c = b.c
            /\ IF Len(t) = 1 THEN a.n >= b.n
               ELSE /\ a.n = b.n
                    /\ EndsWith(SubSeq(s, 1, Len(s) - 1), SubSeq(t, 1, Len(t) - 1))

\* "[TRUNCATED]"
truncationSuffix ==
    <<[c |-> "[", n |-> 1], [c |-> "T", n |-> 1], [c |-> "R", n |-> 1],
      [c |-> "U", n |-> 1], [c |-> "N", n |-> 1], [c |-> "C", n |-> 1],
      [c |-> "A", n |-> 1], [c |-> "T", n |-> 1], [c |-> "E", n |-> 1],
      [c |-> "D", n |-> 1], [c |-> "]", n |-> 1]>>

-----------------------------------------------------------------------------
(* LogQueue                                                                *)

\* the per-event limit of #truncateMessage
maxSize == MAX_LOG_EVENT_SIZE - EVENT_OVERHEAD

\* #calculateMessageSize counting characters instead of encoded bytes
calculateMessageSizeChars(message) == StrLength(message) + EVENT_OVERHEAD

\* #calculateMessageSize without the per-event overhead
calculateMessageSizeNoOverhead(message) == EncodeLength(message)

\* #calculateMessageSize
calculateMessageSize(message) == EncodeLength(message) + EVENT_OVERHEAD

\* the size test of the binary search without the marker
fitsWithoutSuffix(truncatedMsg) == EncodeLength(truncatedMsg) <= maxSize

\* the test of the binary search with < in place of <=
fitsStrict(truncatedMsg) == EncodeLength(Concat(truncatedMsg, truncationSuffix)) < maxSize

\* the test of the binary search: encode(truncatedMsg + suffix).length <= maxSize
fits(truncatedMsg) == EncodeLength(Concat(truncatedMsg, truncationSuffix)) <= maxSize

\* the while loop of #truncateMessage
RECURSIVE binarySearch(_, _, _)
binarySearch(message, low, high) ==
    IF low < high
    THEN LET mid == (low + high + 1) \div 2
         IN IF fits(Substring(message, mid))
            THEN binarySearch(message, mid, high)
            ELSE binarySearch(message, low, mid - 1)
    ELSE low

\* #truncateMessage with the early return taken only strictly below the limit
truncateMessageStrict(message) ==
    IF EncodeLength(message) < maxSize
    THEN message
    ELSE Concat(Substring(message, binarySearch(message, 0, StrLength(message))),
                truncationSuffix)

\* #truncateMessage
truncateMessage(message) ==
    IF EncodeLength(message) <= maxSize
    THEN message
    ELSE Concat(Substring(message, binarySearch(message, 0, StrLength(message))),
                truncationSuffix)

\* number of events of a queue value
RECURSIVE QSize(_)
QSize(q) == IF q = <<>> THEN 0 ELSE Head(q).n + QSize(Tail(q))

\* q1 followed by q2, as one queue value
QConcat(q1, q2) ==
    IF q1 = <<>> THEN q2
    ELSE IF q2 = <<>> THEN q1
    ELSE LET a == q1[Len(q1)]
             b == q2[1]
         IN IF /\ a.message = b.message
               /\ a.timestamp = b.timestamp
               /\ a.first + a.n = b.first
            THEN SubSeq(q1, 1, Len(q1) - 1)
                 \o <<[a EXCEPT !.n = a.n + b.n]>>
                 \o Tail(q2)
            ELSE q1 \o q2

\* q.slice(0, k)
RECURSIVE QTake(_, _)
QTake(q, k) ==
    IF k <= 0 \/ q = <<>> THEN <<>>
    ELSE IF k >= Head(q).n
         THEN <<Head(q)>> \o QTake(Tail(q), k - Head(q).n)
         ELSE <<[Head(q) EXCEPT !.n = k]>>

\* q.slice(k)
RECURSIVE QDrop(_, _)
QDrop(q, k) ==
    IF k <= 0 \/ q = <<>> THEN q
    ELSE IF k >= Head(q).n
         THEN QDrop(Tail(q), k - Head(q).n)
         ELSE <<[Head(q) EXCEPT !.n = Head(q).n - k, !.first = Head(q).first + k]>>
              \o Tail(q)

\* add with unshift in place of push: the new events go to the front
addFront(q, message, timestamp, first, count) ==
    QConcat(<<[message |-> truncateMessage(message), timestamp |-> timestamp,
               first |-> first, n |-> count]>>, q)

\* add, called `count` times in a row with the same message within one
\* millisecond: each call pushes {message: safeMessage, timestamp: Date.now()}
add(q, message, timestamp, first, count) ==
    QConcat(q, <<[message |-> truncateMessage(message), timestamp |-> timestamp,
                  first |-> first, n |-> count]>>)

\* the for loop of getNextBatch breaking when the bytes would reach
\* MAX_BATCH_SIZE (>= in place of >)
RECURSIVE batchLengthStrict(_, _, _)
batchLengthStrict(q, currentBatchSize, length) ==
    IF q = <<>> THEN length
    ELSE LET event == Head(q)
             eventSize == calculateMessageSize(event.message)
             byBytes == Max(0, (MAX_BATCH_SIZE - currentBatchSize - 1) \div eventSize)
             byCount == Max(0, MAX_EVENTS_PER_BATCH - length)
             pushed == Min(event.n, Min(byBytes, byCount))
         IN IF pushed < event.n
            THEN length + pushed
            ELSE batchLengthStrict(Tail(q), currentBatchSize + pushed * eventSize,
                                   length + pushed)

\* The for loop of getNextBatch: batch.length when the loop ends.  The events
\* of a run have the same size, so the loop pushes the events of a run until
\* the run ends, the bytes would exceed MAX_BATCH_SIZE or the batch holds
\* MAX_EVENTS_PER_BATCH events; it breaks in a run it cannot push whole.
RECURSIVE batchLength(_, _, _)
batchLength(q, currentBatchSize, length) ==
    IF q = <<>> THEN length
    ELSE LET event == Head(q)
             eventSize == calculateMessageSize(event.message)
             byBytes == IF eventSize = 0
                        THEN event.n
                        ELSE Max(0, (MAX_BATCH_SIZE - currentBatchSize) \div eventSize)
             byCount == Max(0, MAX_EVENTS_PER_BATCH - length)
             pushed == Min(event.n, Min(byBytes, byCount))
         IN IF pushed < event.n
            THEN length + pushed
            ELSE batchLength(Tail(q), currentBatchSize + pushed * eventSize,
                             length + pushed)

\* getNextBatch that leaves the batch in the queue
getNextBatchKeep(q) ==
    IF QSize(q) = 0
    THEN [batch |-> <<>>, hasMore |-> FALSE, queue |-> q]
    ELSE LET length == batchLength(q, 0, 0)
         IN [batch |-> QTake(q, length), hasMore |-> QSize(q) > 0, queue |-> q]

\* getNextBatch: the batch, hasMore and the queue it leaves
getNextBatch(q) ==
    IF QSize(q) = 0
    THEN [batch |-> <<>>, hasMore |-> FALSE, queue |-> q]
    ELSE LET length == batchLength(q, 0, 0)
             rest == QDrop(q, length)
         IN [batch |-> QTake(q, length), hasMore |-> QSize(rest) > 0, queue |-> rest]

-----------------------------------------------------------------------------
(* LogStreamGenerator                                                      *)

Pad2(n) == IF n < 10 THEN "0" \o ToString(n) ELSE ToString(n)

\* days of the months of 2025
MonthDays == <<31, 28, 31, 30, 31, 30, 31, 31, 30, 31, 30, 31>>

\* the month (1..12) and the day of the month of day d (0..364) of the year
RECURSIVE MonthAndDay(_, _)
MonthAndDay(d, month) ==
    IF d < MonthDays[month]
    THEN [month |-> month, day |-> d + 1]
    ELSE MonthAndDay(d - MonthDays[month], month + 1)

\* #generateLogStreamName without the hour
generateLogStreamNameDaily(prefix, t) ==
    LET md == MonthAndDay((t \div 86400000) % 365, 1)
        year == 2025 + (t \div 86400000) \div 365
    IN prefix \o (IF prefix # "" THEN "-" ELSE "") \o ToString(year)
       \o "-" \o Pad2(md.month) \o "-" \o Pad2(md.day) \o "-UTC"

\* #generateLogStreamName at time t (milliseconds from 2025-01-01T00:00Z, within 2025)
generateLogStreamName(prefix, t) ==
    LET md == MonthAndDay((t \div 86400000) % 365, 1)
        year == 2025 + (t \div 86400000) \div 365
        hour == (t \div 3600000) % 24
    IN prefix \o (IF prefix # "" THEN "-" ELSE "") \o ToString(year)
       \o "-" \o Pad2(md.month) \o "-" \o Pad2(md.day)
       \o "-" \o Pad2(hour) \o "-UTC"

\* the characters String.prototype.trim removes: the WhiteSpace and the
\* LineTerminator code points of ECMAScript, those without an escape in a
\* string written by their code point
WhiteSpace ==
    {"\t", "U+000B", "\f", " ", "U+00A0", "U+FEFF", "U+1680", "U+2000", "U+2001",
     "U+2002", "U+2003", "U+2004", "U+2005", "U+2006", "U+2007", "U+2008",
     "U+2009", "U+200A", "U+202F", "U+205F", "U+3000",
     "\n", "\r", "U+2028", "U+2029"}

\* logGroupName.trim(), a name being a sequence of characters
RECURSIVE Trim(_)
Trim(name) ==
    IF name = <<>> THEN name
    ELSE IF Head(name) \in WhiteSpace THEN Trim(Tail(name))
    ELSE IF name[Len(name)] \in WhiteSpace
    THEN Trim(SubSeq(name, 1, Len(name) - 1))
    ELSE name

\* what DescribeLogStreams can answer for a stream name prefix: no logStreams
\* field, or the streams whose name starts with it
DescribeResponses(streamName) ==
    {[defined |-> FALSE, logStreams |-> {}]} \cup
    {[defined |-> TRUE, logStreams |-> l] :
        l \in SUBSET {streamName, streamName \o "-2"}}

\* logStreams.logStreams?.some(stream => stream.logStreamName === streamName),
\* undefined counting as false
doesLogStreamExist(response, streamName) ==
    IF ~response.defined THEN FALSE ELSE streamName \in response.logStreams

-----------------------------------------------------------------------------
(* CloudWatchLogsTransportStream                                           *)

\* the options: batchSize is <<>> when left out and <<n>> when given
NoOpts == [logGroupName |-> <<>>, logStreamNamePrefix |-> "", batchSize |-> <<>>]

\* no comparison under way: the instance at hand is the first one
NoTwin == [phase |-> "first", events |-> <<>>, calls |-> <<>>, batchSize |-> <<>>]

\* A #flush invocation that has just been made.  pc is where it stands:
\* "waiting" for the lock, at the await of a "describe", "create" or "send"
\* call, "resolved" (the stream name is known to exist and the awaits of
\* getCurrentLogStreamName have yet to resume), at the "exit" of the body, or
\* "done" (lock released, promise settled).  failed: the catch ran; thrown: the promise rejected; closed: the
\* close() that made it has destroyed the client.  lo..hi are the events in
\* the queue and errs the errors logged when it was made; seen is the number
\* of events created, plus one, when it last called getNextBatch.
NewFlush(by) ==
    [by |-> by, pc |-> "waiting", batch |-> <<>>, remaining |-> FALSE,
     stream |-> "", failed |-> FALSE, thrown |-> FALSE, closed |-> FALSE,
     lo |-> IF queue = <<>> THEN nextId ELSE queue[1].first, hi |-> nextId - 1,
     errs |-> flushErrors, seen |-> 0]

Call(kind, i, stream, batch) ==
    [kind |-> kind, cycle |-> i, stream |-> stream, batch |-> batch,
     result |-> "pending", destroyed |-> destroyed]

\* the call in flight is the last one of the log
Answer(result) ==
    [remoteCalls EXCEPT ![Len(remoteCalls)].result = result]

\* Iteration without the lookup in #checkedStreams
IterationNoCache(i, f, cl) ==
    LET r == getNextBatch(queue)
        streamName == generateLogStreamName(opts.logStreamNamePrefix, now)
    IN /\ queue' = r.queue
       /\ IF r.batch = <<>>
          THEN /\ flush' = [f EXCEPT ![i].pc = "exit", ![i].seen = nextId]
               /\ remoteCalls' = cl
          ELSE /\ flush' = [f EXCEPT ![i].pc = "describe", ![i].batch = r.batch,
                                     ![i].remaining = r.hasMore,
                                     ![i].stream = streamName,
                                     ![i].seen = nextId]
               /\ remoteCalls' = Append(cl, Call("describe", i, streamName, <<>>))

\* the loop body with batches of at most batchSize events
IterationCapped(i, f, cl) ==
    LET whole == getNextBatch(queue)
        n == IF opts.batchSize = <<>> THEN QSize(whole.batch)
             ELSE Min(QSize(whole.batch), opts.batchSize[1])
        r == [batch |-> QTake(queue, n), queue |-> QDrop(queue, n),
              hasMore |-> QDrop(queue, n) # <<>>]
        streamName == generateLogStreamName(opts.logStreamNamePrefix, now)
    IN /\ queue' = r.queue
       /\ IF r.batch = <<>>
          THEN /\ flush' = [f EXCEPT ![i].pc = "exit", ![i].seen = nextId]
               /\ remoteCalls' = cl
          ELSE IF streamName \in checkedStreams
          THEN /\ flush' = [f EXCEPT ![i].pc = "resolved", ![i].batch = r.batch,
                                     ![i].remaining = r.hasMore,
                                     ![i].stream = streamName,
                                     ![i].seen = nextId]
               /\ remoteCalls' = cl
          ELSE /\ flush' = [f EXCEPT ![i].pc = "describe", ![i].batch = r.batch,
                                     ![i].remaining = r.hasMore,
                                     ![i].stream = streamName,
                                     ![i].seen = nextId]
               /\ remoteCalls' = Append(cl, Call("describe", i, streamName, <<>>))

\* One pass of invocation i from the top of the while loop of #flush to its
\* next await or to the end of the body, on the invocation table f, the
\* existence cache as it is and the call log cl: getNextBatch, then
\* getCurrentLogStreamName up to its await, which is the await of
\* DescribeLogStreams, or, for a cached name, of a promise that is resolved
\* already ("resolved": the batch is taken and no call is in flight).
Iteration(i, f, cl) ==
    LET r == getNextBatch(queue)
        streamName == generateLogStreamName(opts.logStreamNamePrefix, now)
    IN /\ queue' = r.queue
       /\ IF r.batch = <<>>
          THEN /\ flush' = [f EXCEPT ![i].pc = "exit", ![i].seen = nextId]
               /\ remoteCalls' = cl
          ELSE IF streamName \in checkedStreams
          THEN /\ flush' = [f EXCEPT ![i].pc = "resolved", ![i].batch = r.batch,
                                     ![i].remaining = r.hasMore,
                                     ![i].stream = streamName,
                                     ![i].seen = nextId]
               /\ remoteCalls' = cl
          ELSE /\ flush' = [f EXCEPT ![i].pc = "describe", ![i].batch = r.batch,
                                     ![i].remaining = r.hasMore,
                                     ![i].stream = streamName,
                                     ![i].seen = nextId]
               /\ remoteCalls' = Append(cl, Call("describe", i, streamName, <<>>))

\* #flush() without the lock: the body runs at once
StartFlushNoLock(by) ==
    LET i == Len(flush) + 1
        f == Append(flush, NewFlush(by))
    IN /\ lock' = i
       /\ Iteration(i, f, remoteCalls)
       /\ UNCHANGED waitQ

\* #flush(): lock.acquire runs the body at once when the lock is free and
\* queues it otherwise
StartFlush(by) ==
    LET i == Len(flush) + 1
        f == Append(flush, NewFlush(by))
    IN IF lock = 0
       THEN /\ lock' = i
            /\ Iteration(i, f, remoteCalls)
            /\ UNCHANGED waitQ
       ELSE /\ waitQ' = Append(waitQ, i)
            /\ flush' = f
            /\ UNCHANGED <<lock, queue, remoteCalls>>

\* no continuation of an await of getCurrentLogStreamName is due: a timer
\* callback runs only when the continuations that are due have run
Settled == \A i \in 1..Len(flush) : flush[i].pc # "resolved"

\* the inputs so far
Inputs == calls + Len(flush) + flushErrors + (now - StartTime)

Ticks == Cardinality({i \in 1..Len(flush) : flush[i].by = "timer"})
Closes == Cardinality({i \in 1..Len(flush) : flush[i].by = "close"})

Groups == {<<>>, <<" ", " ">>, <<"\t", "U+00A0", "\n">>, <<"l", "o", "g", "s">>}
Prefixes == {"app"}

\* create(opts) without the test of the log group name
CreateUnchecked(group, prefix) ==
    /\ inst = "none"
    /\ inst' = "live"
    /\ opts' = [logGroupName |-> group, logStreamNamePrefix |-> prefix,
                       batchSize |-> <<>>]
    /\ timer' = "running"
    /\ UNCHANGED <<queue, nextId, calls, now, gvars, lock, waitQ, flush,
                   checkedStreams, remoteCalls, acks, flushErrors, destroyed>>

\* create(opts) that checks the current log stream before it returns
CreateEager(group, prefix) ==
    /\ inst = "none"
    /\ IF Trim(group) = <<>>
       THEN /\ inst' = "failed"
            /\ UNCHANGED <<opts, timer, remoteCalls>>
       ELSE /\ inst' = "live"
            /\ opts' = [logGroupName |-> group, logStreamNamePrefix |-> prefix,
                       batchSize |-> <<>>]
            /\ timer' = "running"
            /\ remoteCalls' = Append(remoteCalls,
                   Call("describe", 0, generateLogStreamName(prefix, now), <<>>))
    /\ UNCHANGED <<queue, nextId, calls, now, gvars, lock, waitQ, flush,
                   checkedStreams, acks, flushErrors, destroyed>>

\* CloudWatchLogsTransportStream.create(opts): the constructor reads
\* logGroupName, logStreamNamePrefix, flushInterval and the client
\* configuration of opts, and create starts the timer
CreateWith(group, prefix, batchSize) ==
    /\ inst = "none"
    /\ IF Trim(group) = <<>>
       THEN /\ inst' = "failed"
            /\ UNCHANGED <<opts, timer>>
       ELSE /\ inst' = "live"
            /\ opts' = [logGroupName |-> group, logStreamNamePrefix |-> prefix,
                        batchSize |-> batchSize]
            /\ timer' = "running"
    /\ UNCHANGED <<queue, nextId, calls, now, gvars, lock, waitQ, flush,
                   checkedStreams, remoteCalls, acks, flushErrors, destroyed>>

\* create(opts) with batchSize left out
Create(group, prefix) == CreateWith(group, prefix, <<>>)

\* a string, or an object with the Symbol.for("message") field and the
\* message field; a field is <<>> when absent and <<text>> when present
StringInfo(m) == [type |-> "string", value |-> <<m>>, message |-> <<>>]
ObjectInfo(symbol, message) == [type |-> "object", value |-> symbol, message |-> message]
Absent == <<>>
Present(m) == <<m>>

\* #extractMessage
extractMessage(info) ==
    IF info.type = "string" THEN info.value[1]
    ELSE IF info.value # Absent THEN info.value[1]
    ELSE IF info.message # Absent THEN info.message[1]
    ELSE <<>>

Small == Rep("x", 13)
Half == Rep("x", 524288)

\* null or undefined in place of a record: reading info[MESSAGE_SYMBOL]
\* raises a TypeError
NullInfo == [type |-> "null", value |-> Absent, message |-> Absent]

\* an object whose message is a Symbol: #extractMessage returns it and
\* TextEncoder.encode raises a TypeError in add
SymbolInfo == [type |-> "symbol", value |-> Absent, message |-> Absent]

\* the try block of log raises before it reaches next()
tryThrows(info) == info.type \in {"null", "symbol"}

\* the records logged: they carry the text Half or no text at all, or make
\* the extraction or the queueing raise
Infos ==
    {StringInfo(Half), ObjectInfo(Absent, Absent),
     ObjectInfo(Present(Half), Present(Small)), ObjectInfo(Absent, Present(Half)),
     NullInfo, SymbolInfo}

\* log(info, next) without the catch block: an error of the try block leaves
\* log before next() is called
LogNoCatch(info) ==
    /\ inst = "live"
    /\ Inputs < MaxInputs
    /\ IF tryThrows(info)
       THEN UNCHANGED <<queue, nextId, acks>>
       ELSE /\ queue' = add(queue, extractMessage(info), now, nextId, 1)
            /\ nextId' = nextId + 1
            /\ acks' = acks + 1
    /\ calls' = calls + 1
    /\ UNCHANGED <<now, gvars, inst, opts, timer, lock, waitQ, flush,
                   checkedStreams, remoteCalls, flushErrors, destroyed>>

\* log(info, next): the try block queues the message and calls next(); when
\* it raises, the catch block reports the error and calls next()
Log(info) ==
    /\ inst = "live"
    /\ Inputs < MaxInputs
    /\ IF tryThrows(info)
       THEN UNCHANGED <<queue, nextId>>
       ELSE /\ queue' = add(queue, extractMessage(info), now, nextId, 1)
            /\ nextId' = nextId + 1
    /\ calls' = calls + 1
    /\ acks' = acks + 1
    /\ UNCHANGED <<now, gvars, inst, opts, timer, lock, waitQ, flush,
                   checkedStreams, remoteCalls, flushErrors, destroyed>>

\* the interval timer fires and the body of #flush runs without the lock
TickNoLock ==
    /\ inst = "live"
    /\ timer = "running"
    /\ Settled
    /\ Inputs < MaxInputs
    /\ Iteration(Len(flush) + 1, Append(flush, NewFlush("timer")), remoteCalls)
    /\ UNCHANGED <<nextId, calls, now, gvars, inst, opts, timer, lock, waitQ,
                   checkedStreams, acks, flushErrors, destroyed>>

\* the interval timer fires: () => this.#flush()
Tick ==
    /\ inst = "live"
    /\ timer = "running"
    /\ Settled
    /\ Inputs < MaxInputs
    /\ StartFlush("timer")
    /\ UNCHANGED <<nextId, calls, now, gvars, inst, opts, timer, checkedStreams,
                   acks, flushErrors, destroyed>>

\* close() that leaves the interval timer running
CloseKeepsTimer ==
    /\ inst = "live"
    /\ Inputs < MaxInputs
    /\ StartFlush("close")
    /\ UNCHANGED <<nextId, calls, now, gvars, inst, opts, timer, checkedStreams,
                   acks, flushErrors, destroyed>>

\* close() up to its await: clearInterval, then #flush()
Close ==
    /\ inst = "live"
    /\ Inputs < MaxInputs
    /\ timer' = "cleared"
    /\ StartFlush("close")
    /\ UNCHANGED <<nextId, calls, now, gvars, inst, opts, checkedStreams,
                   acks, flushErrors, destroyed>>

\* DescribeLogStreams answers: the name is cached, or the stream is created
\* first
DescribeOk(i, response) ==
    /\ i \in 1..Len(flush)
    /\ flush[i].pc = "describe"
    /\ IF doesLogStreamExist(response, flush[i].stream)
       THEN /\ checkedStreams' = checkedStreams \cup {flush[i].stream}
            /\ flush' = [flush EXCEPT ![i].pc = "resolved"]
            /\ remoteCalls' = Answer("found")
       ELSE /\ flush' = [flush EXCEPT ![i].pc = "create"]
            /\ remoteCalls' = Append(Answer("absent"),
                                     Call("create", i, flush[i].stream, <<>>))
            /\ UNCHANGED checkedStreams
    /\ UNCHANGED <<queue, nextId, calls, now, gvars, inst, opts, timer, lock, waitQ,
                   acks, flushErrors, destroyed>>

\* CreateLogStream answers: the name is cached
CreateOk(i) ==
    /\ i \in 1..Len(flush)
    /\ flush[i].pc = "create"
    /\ checkedStreams' = checkedStreams \cup {flush[i].stream}
    /\ flush' = [flush EXCEPT ![i].pc = "resolved"]
    /\ remoteCalls' = Answer("ok")
    /\ UNCHANGED <<queue, nextId, calls, now, gvars, inst, opts, timer, lock, waitQ,
                   acks, flushErrors, destroyed>>

\* the awaits of getCurrentLogStreamName have resumed with the name:
\* client.send(new PutLogEventsCommand(params))
Send(i) ==
    /\ i \in 1..Len(flush)
    /\ flush[i].pc = "resolved"
    /\ flush' = [flush EXCEPT ![i].pc = "send"]
    /\ remoteCalls' = Append(remoteCalls,
                             Call("put", i, flush[i].stream, flush[i].batch))
    /\ UNCHANGED <<queue, nextId, calls, now, gvars, inst, opts, timer, lock, waitQ,
                   checkedStreams, acks, flushErrors, destroyed>>

\* PutLogEvents answers and the loop ends whatever getNextBatch reported
SendOkOnce(i) ==
    /\ i \in 1..Len(flush)
    /\ flush[i].pc = "send"
    /\ flush' = [flush EXCEPT ![i].pc = "exit"]
    /\ remoteCalls' = Answer("ok")
    /\ UNCHANGED <<queue, nextId, calls, now, gvars, inst, opts, timer, lock, waitQ,
                   checkedStreams, acks, flushErrors, destroyed>>

\* PutLogEvents answers: hasMore = remaining, and the loop goes on or ends
SendOk(i) ==
    /\ i \in 1..Len(flush)
    /\ flush[i].pc = "send"
    /\ IF flush[i].remaining
       THEN Iteration(i, flush, Answer("ok"))
       ELSE /\ flush' = [flush EXCEPT ![i].pc = "exit"]
            /\ remoteCalls' = Answer("ok")
            /\ UNCHANGED queue
    /\ UNCHANGED <<nextId, calls, now, gvars, inst, opts, timer, lock, waitQ,
                   checkedStreams, acks, flushErrors, destroyed>>

\* SendFail putting the batch back at the head of the queue
SendFailRequeue(i) ==
    /\ i \in 1..Len(flush)
    /\ flush[i].pc \in {"describe", "create", "send"}
    /\ Inputs < MaxInputs
    /\ flushErrors' = flushErrors + 1
    /\ flush' = [flush EXCEPT ![i].pc = "exit", ![i].failed = TRUE]
    /\ remoteCalls' = Answer("failed")
    /\ queue' = QConcat(flush[i].batch, queue)
    /\ UNCHANGED <<nextId, calls, now, gvars, inst, opts, timer, lock, waitQ,
                   checkedStreams, acks, destroyed>>

\* SendFail without the try/catch: the error leaves #flush
SendFailThrow(i) ==
    /\ i \in 1..Len(flush)
    /\ flush[i].pc \in {"describe", "create", "send"}
    /\ Inputs < MaxInputs
    /\ flush' = [flush EXCEPT ![i].pc = "exit", ![i].thrown = TRUE]
    /\ remoteCalls' = Answer("failed")
    /\ UNCHANGED <<queue, nextId, calls, now, gvars, inst, opts, timer, lock, waitQ,
                   checkedStreams, acks, flushErrors, destroyed>>

\* SendFail with the name cached before the call was awaited
SendFailCaches(i) ==
    /\ i \in 1..Len(flush)
    /\ flush[i].pc \in {"describe", "create", "send"}
    /\ Inputs < MaxInputs
    /\ flushErrors' = flushErrors + 1
    /\ flush' = [flush EXCEPT ![i].pc = "exit", ![i].failed = TRUE]
    /\ remoteCalls' = Answer("failed")
    /\ checkedStreams' = checkedStreams \cup {flush[i].stream}
    /\ UNCHANGED <<queue, nextId, calls, now, gvars, inst, opts, timer, lock, waitQ,
                   acks, destroyed>>

\* the call in flight of invocation i throws: the catch of #flush logs the
\* error and the body ends
SendFail(i) ==
    /\ i \in 1..Len(flush)
    /\ flush[i].pc \in {"describe", "create", "send"}
    /\ Inputs < MaxInputs
    /\ flushErrors' = flushErrors + 1
    /\ flush' = [flush EXCEPT ![i].pc = "exit", ![i].failed = TRUE]
    /\ remoteCalls' = Answer("failed")
    /\ UNCHANGED <<queue, nextId, calls, now, gvars, inst, opts, timer, lock, waitQ,
                   checkedStreams, acks, destroyed>>

\* the lock is released only by a body that did not catch an error
ReleaseUnlessFailed(i) ==
    /\ i \in 1..Len(flush)
    /\ flush[i].pc = "exit"
    /\ ~flush[i].failed
    /\ lock = i
    /\ LET f == [flush EXCEPT ![i].pc = "done"]
       IN IF waitQ = <<>>
          THEN /\ lock' = 0
               /\ flush' = f
               /\ UNCHANGED <<waitQ, queue, remoteCalls>>
          ELSE /\ lock' = Head(waitQ)
               /\ waitQ' = Tail(waitQ)
               /\ Iteration(Head(waitQ), f, remoteCalls)
    /\ UNCHANGED <<nextId, calls, now, gvars, inst, opts, timer, checkedStreams,
                   acks, flushErrors, destroyed>>

\* the body of invocation i has returned: the lock passes to the next queued
\* invocation, whose body starts at once, or becomes free
Release(i) ==
    /\ i \in 1..Len(flush)
    /\ flush[i].pc = "exit"
    /\ lock = i
    /\ LET f == [flush EXCEPT ![i].pc = "done"]
       IN IF waitQ = <<>>
          THEN /\ lock' = 0
               /\ flush' = f
               /\ UNCHANGED <<waitQ, queue, remoteCalls>>
          ELSE /\ lock' = Head(waitQ)
               /\ waitQ' = Tail(waitQ)
               /\ Iteration(Head(waitQ), f, remoteCalls)
    /\ UNCHANGED <<nextId, calls, now, gvars, inst, opts, timer, checkedStreams,
                   acks, flushErrors, destroyed>>

\* close() without the await: the client is destroyed while #flush runs
CloseFinishNoAwait(i) ==
    /\ i \in 1..Len(flush)
    /\ flush[i].by = "close"
    /\ ~flush[i].closed
    /\ flush' = [flush EXCEPT ![i].closed = TRUE]
    /\ destroyed' = TRUE
    /\ UNCHANGED <<queue, nextId, calls, now, gvars, inst, opts, timer, lock, waitQ,
                   checkedStreams, remoteCalls, acks, flushErrors>>

\* close() that rejects when its flush cycle met a failure, and so never
\* reaches destroy()
CloseFinishUnlessFailed(i) ==
    /\ i \in 1..Len(flush)
    /\ flush[i].by = "close"
    /\ flush[i].pc = "done"
    /\ ~flush[i].failed
    /\ ~flush[i].closed
    /\ flush' = [flush EXCEPT ![i].closed = TRUE]
    /\ destroyed' = TRUE
    /\ UNCHANGED <<queue, nextId, calls, now, gvars, inst, opts, timer, lock, waitQ,
                   checkedStreams, remoteCalls, acks, flushErrors>>

\* close() after its await: this.#client.destroy()
CloseFinish(i) ==
    /\ i \in 1..Len(flush)
    /\ flush[i].by = "close"
    /\ flush[i].pc = "done"
    /\ ~flush[i].thrown
    /\ ~flush[i].closed
    /\ flush' = [flush EXCEPT ![i].closed = TRUE]
    /\ destroyed' = TRUE
    /\ UNCHANGED <<queue, nextId, calls, now, gvars, inst, opts, timer, lock, waitQ,
                   checkedStreams, remoteCalls, acks, flushErrors>>

\* the clock moves on
AdvanceClock ==
    /\ Inputs < MaxInputs
    /\ now' = now + 1
    /\ UNCHANGED <<queue, nextId, calls, gvars, tvars>>

NoRet == [batch |-> <<>>, hasMore |-> FALSE, queue |-> <<>>]

\* nothing constructed yet
InitTransport ==
    /\ inst = "none"
    /\ opts = NoOpts
    /\ timer = "none"
    /\ lock = 0
    /\ waitQ = <<>>
    /\ flush = <<>>
    /\ checkedStreams = {}
    /\ remoteCalls = <<>>
    /\ acks = 0
    /\ flushErrors = 0
    /\ destroyed = FALSE

Init ==
    /\ queue = <<>>
    /\ nextId = 1
    /\ calls = 0
    /\ now = StartTime
    /\ op = "new"
    /\ arg = <<>>
    /\ ret = NoRet
    /\ snapshot = <<>>
    /\ drained = <<>>
    /\ resolutions = <<>>
    /\ twin = NoTwin
    /\ InitTransport

Next ==
    \/ \E group \in Groups : \E prefix \in Prefixes : Create(group, prefix)
    \/ \E info \in Infos : Log(info)
    \/ Tick
    \/ Close
    \/ \E i \in 1..MaxInputs :
         \E response \in DescribeResponses(IF i <= Len(flush) THEN flush[i].stream ELSE "") :
            DescribeOk(i, response)
    \/ \E i \in 1..MaxInputs : CreateOk(i)
    \/ \E i \in 1..MaxInputs : Send(i)
    \/ \E i \in 1..MaxInputs : SendOk(i)
    \/ \E i \in 1..MaxInputs : SendFail(i)
    \/ \E i \in 1..MaxInputs : Release(i)
    \/ \E i \in 1..MaxInputs : CloseFinish(i)
    \/ AdvanceClock

Spec == Init /\ [][Next]_vars

-----------------------------------------------------------------------------
(* Two instances that differ in batchSize only.  The first instance runs   *)
(* and every event it receives is written down before it happens; then a   *)
(* second instance is created with another batchSize and is given the      *)
(* written events in the same order.                                       *)

MaxEvents == 7

\* batchSize left out, and the batchSize: 2 of the tests
BatchSizes == {<<>>, <<2>>}

BInfos == {StringInfo(Small)}

\* DescribeLogStreams finds the stream, or answers without logStreams
BResponses(streamName) ==
    {[defined |-> TRUE, logStreams |-> {streamName}],
     [defined |-> FALSE, logStreams |-> {}]}

Event(kind, i, a) == [kind |-> kind, i |-> i, a |-> a]

\* the number of events the instance at hand has received
Performed ==
    (IF inst = "none" THEN 0 ELSE 1)
    + Inputs
    + Cardinality({k \in 1..Len(remoteCalls) :
                      remoteCalls[k].result \notin {"pending", "failed"}})
    + Cardinality({k \in 1..Len(remoteCalls) : remoteCalls[k].kind = "put"})
    + Cardinality({i \in 1..Len(flush) : flush[i].pc = "done"})
    + Cardinality({i \in 1..Len(flush) : flush[i].closed})

\* event e happens to an instance whose batchSize option is b
BPerform(e, b) ==
    \/ e.kind = "create" /\ CreateWith(e.a[1], e.a[2], b)
    \/ e.kind = "log" /\ Log(e.a[1])
    \/ e.kind = "tick" /\ Tick
    \/ e.kind = "close" /\ Close
    \/ e.kind = "describeOk" /\ DescribeOk(e.i, e.a[1])
    \/ e.kind = "createOk" /\ CreateOk(e.i)
    \/ e.kind = "send" /\ Send(e.i)
    \/ e.kind = "sendOk" /\ SendOk(e.i)
    \/ e.kind = "fail" /\ SendFail(e.i)
    \/ e.kind = "release" /\ Release(e.i)
    \/ e.kind = "closeFinish" /\ CloseFinish(e.i)

\* the next event of the first instance is written down
Announce(e, b) ==
    /\ twin.phase = "first"
    /\ Performed = Len(twin.events)
    /\ Len(twin.events) < MaxEvents
    /\ ENABLED BPerform(e, b)
    /\ twin' = [twin EXCEPT !.events = Append(@, e), !.batchSize = b]
    /\ UNCHANGED <<queue, nextId, calls, now, op, arg, ret, snapshot, drained,
                   resolutions, tvars>>

BAnnounce ==
    \/ \E b \in BatchSizes :
          Announce(Event("create", 0, <<<<"l", "o", "g", "s">>, "app">>), b)
    \/ \E info \in BInfos : Announce(Event("log", 0, <<info>>), twin.batchSize)
    \/ Announce(Event("tick", 0, <<>>), twin.batchSize)
    \/ Announce(Event("close", 0, <<>>), twin.batchSize)
    \/ \E i \in 1..Len(flush) :
          \/ \E response \in BResponses(flush[i].stream) :
                Announce(Event("describeOk", i, <<response>>), twin.batchSize)
          \/ \E kind \in {"createOk", "send", "sendOk", "fail", "release",
                          "closeFinish"} :
                Announce(Event(kind, i, <<>>), twin.batchSize)

\* the written event happens to the first instance
BFirst ==
    /\ twin.phase = "first"
    /\ Performed < Len(twin.events)
    /\ BPerform(twin.events[Len(twin.events)], twin.batchSize)

\* the first instance is put aside with the calls it has made, and the
\* second one starts from nothing
BSwitch ==
    /\ twin.phase = "first"
    /\ twin.events # <<>>
    /\ Performed = Len(twin.events)
    /\ twin' = [twin EXCEPT !.phase = "second", !.calls = remoteCalls]
    /\ queue' = <<>>
    /\ nextId' = 1
    /\ calls' = 0
    /\ now' = StartTime
    /\ inst' = "none"
    /\ opts' = NoOpts
    /\ timer' = "none"
    /\ lock' = 0
    /\ waitQ' = <<>>
    /\ flush' = <<>>
    /\ checkedStreams' = {}
    /\ remoteCalls' = <<>>
    /\ acks' = 0
    /\ flushErrors' = 0
    /\ destroyed' = FALSE
    /\ UNCHANGED <<op, arg, ret, snapshot, drained, resolutions>>

\* the next written event happens to the second instance, which was
\* created with another batchSize
BSecond ==
    /\ twin.phase = "second"
    /\ Performed < Len(twin.events)
    /\ \E b \in BatchSizes \ {twin.batchSize} :
          BPerform(twin.events[Performed + 1], b)

BNext ==
    \/ BAnnounce
    \/ BFirst
    \/ BSwitch
    \/ BSecond

BSpec == Init /\ [][BNext]_vars

-----------------------------------------------------------------------------
(* The transport with a timer that keeps firing and no close():            *)
(* setInterval calls #flush again and again.  The ticks beyond the budget  *)
(* of inputs are those that find the lock free and the queue not empty,    *)
(* which keeps the state space finite; the clock stands still.             *)

\* the interval timer fires: () => this.#flush()
LTick ==
    /\ inst = "live"
    /\ timer = "running"
    /\ Settled
    /\ Inputs < MaxInputs \/ (lock = 0 /\ queue # <<>>)
    /\ StartFlush("timer")
    /\ UNCHANGED <<nextId, calls, now, gvars, inst, opts, timer, checkedStreams,
                   acks, flushErrors, destroyed>>

\* a remote call in flight is answered with success
AnswerOk ==
    \/ \E i \in 1..(2 * MaxInputs) :
         \E response \in DescribeResponses(IF i <= Len(flush) THEN flush[i].stream ELSE "") :
            DescribeOk(i, response)
    \/ \E i \in 1..(2 * MaxInputs) : CreateOk(i)
    \/ \E i \in 1..(2 * MaxInputs) : SendOk(i)

\* the body of a #flush invocation has returned and the lock is released
ReleaseLock == \E i \in 1..(2 * MaxInputs) : Release(i)

\* the body of a #flush invocation goes on after getCurrentLogStreamName
Resume == \E i \in 1..(2 * MaxInputs) : Send(i)

\* the records logged: strings of 0.5 MiB, which go one to a batch
LInfos == {StringInfo(Half)}

LNext ==
    \/ \E group \in Groups : \E prefix \in Prefixes : Create(group, prefix)
    \/ \E info \in LInfos : Log(info)
    \/ LTick
    \/ AnswerOk
    \/ \E i \in 1..(2 * MaxInputs) : SendFail(i)
    \/ Resume
    \/ ReleaseLock

\* the timer fires as long as it runs, a call that does not fail is answered,
\* a body whose await has resolved goes on, and a body that has returned
\* releases the lock
LFairness ==
    /\ WF_vars(LTick)
    /\ WF_vars(AnswerOk)
    /\ WF_vars(Resume)
    /\ WF_vars(ReleaseLock)

LSpec == Init /\ [][LNext]_vars /\ LFairness

-----------------------------------------------------------------------------
(* The queue on its own: any sequence of add, getNextBatch and reset.  No   *)
(* queue operation reads a timestamp, and the clock stands still here.     *)

\* messages of the tests of log-queue.test.ts and of the limits
QMessages ==
    { <<>>, Small, Rep("x", 300000), Rep("x", 524288), Rep("x", maxSize),
      Rep("x", maxSize + 1), Rep("x", 1048577),
      Rep("E4", 250000), Rep("E4", 262144), Rep("J3", 349517),
      Concat(Rep("x", 1), Rep("E4", 262144)) }

\* how many times in a row add is called
AddCounts(m) ==
    IF m = Small THEN {1, MAX_EVENTS_PER_BATCH, MAX_EVENTS_PER_BATCH + 1} ELSE {1}

QInit ==
    /\ queue = <<>>
    /\ nextId = 1
    /\ calls = 0
    /\ now = StartTime
    /\ op = "new"
    /\ arg = <<>>
    /\ ret = NoRet
    /\ snapshot = <<>>
    /\ drained = <<>>
    /\ resolutions = <<>>
    /\ twin = NoTwin
    /\ InitTransport

\* queue.add(m), count times
QAdd(m, count) ==
    /\ calls < MaxAdds
    /\ queue' = add(queue, m, now, nextId, count)
    /\ nextId' = nextId + count
    /\ calls' = calls + 1
    /\ op' = "add"
    /\ arg' = m
    /\ snapshot' = queue'
    /\ drained' = <<>>
    /\ UNCHANGED <<now, ret, resolutions, twin, tvars>>

\* queue.getNextBatch()
QGetNextBatch ==
    /\ ret' = getNextBatch(queue)
    /\ queue' = ret'.queue
    /\ drained' = QConcat(drained, ret'.batch)
    /\ op' = "getNextBatch"
    /\ UNCHANGED <<nextId, calls, now, arg, snapshot, resolutions, twin, tvars>>

\* queue.reset()
QReset ==
    /\ op # "reset"
    /\ queue' = <<>>
    /\ op' = "reset"
    /\ snapshot' = <<>>
    /\ drained' = <<>>
    /\ UNCHANGED <<nextId, calls, now, arg, ret, resolutions, twin, tvars>>

QNext ==
    \/ \E m \in QMessages : \E count \in AddCounts(m) : QAdd(m, count)
    \/ QGetNextBatch
    \/ QReset

QSpec == QInit /\ [][QNext]_vars

-----------------------------------------------------------------------------
(* add on its own: one call on an empty queue, for messages around the     *)
(* per-event limit                                                         *)

TruncHeads == {"x", "L2", "J3"}
TruncBodies == {"x", "L2", "J3", "E4"}
TruncTails == {<<>>, Rep("x", 5), truncationSuffix}
MaxHead == 3          \* characters before the body of a message
MaxOver == 2          \* characters of the body beyond the per-event limit

\* messages whose encoded length is just below, at and above maxSize, the
\* empty message and short ones
TruncInputs ==
    { Concat(Concat(Rep(h, a), Rep(c, (maxSize \div BytesOf(c)) + d)), t) :
        h \in TruncHeads, a \in 0..MaxHead, c \in TruncBodies,
        d \in (0 - 4)..MaxOver, t \in TruncTails }
    \cup { Concat(Rep(h, a), t) : h \in TruncHeads, a \in 0..MaxHead, t \in TruncTails }

TInit ==
    /\ queue = <<>>
    /\ nextId = 1
    /\ calls = 0
    /\ now = StartTime
    /\ op = "new"
    /\ arg \in TruncInputs
    /\ ret = NoRet
    /\ snapshot = <<>>
    /\ drained = <<>>
    /\ resolutions = <<>>
    /\ twin = NoTwin
    /\ InitTransport

\* queue.add(arg)
TAdd ==
    /\ op = "new"
    /\ queue' = add(queue, arg, now, nextId, 1)
    /\ nextId' = nextId + 1
    /\ calls' = calls + 1
    /\ op' = "add"
    /\ snapshot' = queue'
    /\ UNCHANGED <<now, arg, ret, drained, resolutions, twin, tvars>>

TNext == TAdd

TSpec == TInit /\ [][TNext]_vars

-----------------------------------------------------------------------------
(* The LogStreamGenerator on its own: getCurrentLogStreamName called again *)
(* and again while the clock moves; the method is asynchronous, so a call  *)
(* can be made while earlier ones wait for a remote call or to resume      *)

MaxSteps == 6         \* getCurrentLogStreamName calls, answers and clock moves

\* the last instant TLC's integers leave room for: 2025-01-25T00:00Z
MaxTime == 24 * 86400000

\* 2025-01-01T00:00Z, the last millisecond of an hour of 2025-01-02, and
\* the last millisecond of 2025-01-09
GStarts == {0, StartTime, 9 * 86400000 - 1}

\* a millisecond, an hour, a day
GJumps == {1, 3600000, 86400000}

GPrefixes == {"", "app"}

\* the generators made: a starting instant and a prefix
GCases == {<<0, "app">>, <<StartTime, "">>, <<9 * 86400000 - 1, "app">>}

GInit ==
    /\ queue = <<>>
    /\ nextId = 1
    /\ calls = 0
    /\ now \in GStarts
    /\ \E prefix \in GPrefixes :
          /\ <<now, prefix>> \in GCases
          /\ opts = [logGroupName |-> <<"l", "o", "g", "s">>,
                     logStreamNamePrefix |-> prefix, batchSize |-> <<>>]
    /\ op = "new"
    /\ arg = <<>>
    /\ ret = NoRet
    /\ snapshot = <<>>
    /\ drained = <<>>
    /\ resolutions = <<>>
    /\ twin = NoTwin
    /\ inst = "live"
    /\ timer = "none"
    /\ lock = 0
    /\ waitQ = <<>>
    /\ flush = <<>>
    /\ checkedStreams = {}
    /\ remoteCalls = <<>>
    /\ acks = 0
    /\ flushErrors = 0
    /\ destroyed = FALSE

\* the getCurrentLogStreamName calls whose promise has settled
Returned == {i \in 1..Len(resolutions) : resolutions[i].pc = "done"}

\* getCurrentLogStreamName() up to its first await: the name of the hour,
\* then #ensureLogStreamExists, which returns for a cached name and sends
\* DescribeLogStreams otherwise.  A call is written down with the instant
\* it was made at, the name, where it stands ("describe", "create",
\* "return" and "throw" while getCurrentLogStreamName waits to resume after
\* #ensureLogStreamExists, "done"), whether it returned the name, the
\* remote calls it has sent, the one in flight, and the calls that had
\* settled when it was made.
GetCurrentLogStreamName ==
    LET streamName == generateLogStreamName(opts.logStreamNamePrefix, now)
        i == Len(resolutions) + 1
        cached == streamName \in checkedStreams
    IN /\ calls < MaxSteps
       /\ calls' = calls + 1
       /\ resolutions' = Append(resolutions,
             [at |-> now, name |-> streamName,
              pc |-> IF cached THEN "return" ELSE "describe",
              ok |-> FALSE,
              calls |-> IF cached THEN 0 ELSE 1,
              call |-> IF cached THEN 0 ELSE Len(remoteCalls) + 1,
              before |-> Returned])
       /\ remoteCalls' =
             IF cached THEN remoteCalls
             ELSE Append(remoteCalls, Call("describe", i, streamName, <<>>))
       /\ UNCHANGED <<queue, nextId, now, op, arg, ret, snapshot, drained, twin,
                      inst, opts, timer, lock, waitQ, flush, checkedStreams, acks,
                      flushErrors, destroyed>>

\* DescribeLogStreams of call i answers: the name is cached when the stream
\* is listed, and CreateLogStream is sent when it is not
GDescribeOk(i, response) ==
    /\ i \in 1..Len(resolutions)
    /\ calls < MaxSteps
    /\ calls' = calls + 1
    /\ resolutions[i].pc = "describe"
    /\ LET r == resolutions[i]
           exists == doesLogStreamExist(response, r.name)
           answered == [remoteCalls EXCEPT ![r.call].result =
                            IF exists THEN "found" ELSE "absent"]
       IN IF exists
          THEN /\ checkedStreams' = checkedStreams \cup {r.name}
               /\ resolutions' = [resolutions EXCEPT ![i].pc = "return",
                                                     ![i].call = 0]
               /\ remoteCalls' = answered
          ELSE /\ resolutions' = [resolutions EXCEPT ![i].pc = "create",
                                                     ![i].calls = 2,
                                                     ![i].call = Len(remoteCalls) + 1]
               /\ remoteCalls' = Append(answered, Call("create", i, r.name, <<>>))
               /\ UNCHANGED checkedStreams
    /\ UNCHANGED <<queue, nextId, now, op, arg, ret, snapshot, drained, twin,
                   inst, opts, timer, lock, waitQ, flush, acks, flushErrors,
                   destroyed>>

\* CreateLogStream of call i answers: the name is cached
GCreateOk(i) ==
    /\ i \in 1..Len(resolutions)
    /\ calls < MaxSteps
    /\ calls' = calls + 1
    /\ resolutions[i].pc = "create"
    /\ checkedStreams' = checkedStreams \cup {resolutions[i].name}
    /\ resolutions' = [resolutions EXCEPT ![i].pc = "return", ![i].call = 0]
    /\ remoteCalls' = [remoteCalls EXCEPT ![resolutions[i].call].result = "ok"]
    /\ UNCHANGED <<queue, nextId, now, op, arg, ret, snapshot, drained, twin,
                   inst, opts, timer, lock, waitQ, flush, acks, flushErrors,
                   destroyed>>

\* the remote call in flight of call i throws: #ensureLogStreamExists
\* rejects and the name is not cached
GFail(i) ==
    /\ i \in 1..Len(resolutions)
    /\ calls < MaxSteps
    /\ calls' = calls + 1
    /\ resolutions[i].pc \in {"describe", "create"}
    /\ resolutions' = [resolutions EXCEPT ![i].pc = "throw", ![i].call = 0]
    /\ remoteCalls' = [remoteCalls EXCEPT ![resolutions[i].call].result = "failed"]
    /\ UNCHANGED <<queue, nextId, now, op, arg, ret, snapshot, drained, twin,
                   inst, opts, timer, lock, waitQ, flush, checkedStreams, acks,
                   flushErrors, destroyed>>

\* getCurrentLogStreamName of call i resumes after #ensureLogStreamExists:
\* it returns the name, or rejects with what #ensureLogStreamExists threw
GReturn(i) ==
    /\ i \in 1..Len(resolutions)
    /\ resolutions[i].pc \in {"return", "throw"}
    /\ resolutions' = [resolutions EXCEPT ![i].pc = "done",
                                          ![i].ok = (resolutions[i].pc = "return")]
    /\ UNCHANGED <<queue, nextId, calls, now, op, arg, ret, snapshot, drained,
                   twin, tvars>>

\* the clock moves on by d milliseconds
GAdvanceClock(d) ==
    /\ calls < MaxSteps
    /\ d <= MaxTime - now
    /\ calls' = calls + 1
    /\ now' = now + d
    /\ UNCHANGED <<queue, nextId, gvars, tvars>>

GNext ==
    \/ GetCurrentLogStreamName
    \/ \E i \in 1..MaxSteps :
         \E response \in DescribeResponses(
                             IF i <= Len(resolutions) THEN resolutions[i].name ELSE "") :
            GDescribeOk(i, response)
    \/ \E i \in 1..MaxSteps : GCreateOk(i)
    \/ \E i \in 1..MaxSteps : GFail(i)
    \/ \E i \in 1..MaxSteps : GReturn(i)
    \/ \E d \in GJumps : GAdvanceClock(d)

GSpec == GInit /\ [][GNext]_vars

-----------------------------------------------------------------------------
(* Measures used by the properties                                         *)

\* sum over the events of a batch of encoded message bytes + 26
RECURSIVE BatchBytes(_)
BatchBytes(b) ==
    IF b = <<>> THEN 0
    ELSE Head(b).n * (EncodeLength(Head(b).message) + 26) + BatchBytes(Tail(b))

\* the same sum with code units in place of bytes
RECURSIVE BatchUnits(_)
BatchUnits(b) ==
    IF b = <<>> THEN 0
    ELSE Head(b).n * (StrLength(Head(b).message) + 26) + BatchUnits(Tail(b))

HasChar(s, c) == \E i \in 1..Len(s) : s[i].c = c

-----------------------------------------------------------------------------
(* Properties                                                              *)

\* C1: every batch getNextBatch returns weighs at most 1,048,576 bytes
\* (encoded message bytes + 26 per event) and holds at most 10,000 events.
C1_BatchWithinLimits ==
    /\ BatchBytes(ret.batch) <= 1048576
    /\ QSize(ret.batch) <= 10000

\* a batch was cut before an emoji message that would have fitted had sizes
\* been counted in characters
C1_Witness ==
    /\ op = "getNextBatch"
    /\ ret.hasMore
    /\ ret.batch # <<>>
    /\ HasChar(queue[1].message, "E4")
    /\ BatchBytes(ret.batch) + EncodeLength(queue[1].message) + 26 > 1048576
    /\ BatchUnits(ret.batch) + StrLength(queue[1].message) + 26 <= 1048576

\* C2: every buffered message encodes to at most 1,048,576 - 26 bytes, so
\* every event with its overhead fits in one batch.
C2_EventsWithinLimit ==
    \A i \in 1..Len(queue) :
        /\ EncodeLength(queue[i].message) <= 1048576 - 26
        /\ EncodeLength(queue[i].message) + 26 <= MAX_BATCH_SIZE

\* an oversized message was added and is buffered at exactly the limit
C2_Witness ==
    /\ op = "add"
    /\ EncodeLength(arg) > 1048576 - 26
    /\ queue # <<>>
    /\ EncodeLength(queue[Len(queue)].message) = 1048576 - 26

\* C3: the batches returned since the last add or reset, followed by what
\* is left in the queue, are the queue contents as they were, in order; when
\* getNextBatch reports hasMore = FALSE the batches are all of it and the
\* queue is empty.
C3_DrainPartitions ==
    /\ QConcat(drained, queue) = snapshot
    /\ (op = "getNextBatch" /\ ~ret.hasMore) => (queue = <<>> /\ drained = snapshot)

\* a drain of more than 10,000 events that took more than one batch has ended
C3_Witness ==
    /\ op = "getNextBatch"
    /\ ~ret.hasMore
    /\ ret.batch # <<>>
    /\ ret.batch # drained
    /\ QSize(drained) > MAX_EVENTS_PER_BATCH
    /\ drained = snapshot

\* the message add stored, in the specification of one add call
Stored == queue[1].message

\* code units of the prefix of arg that Stored keeps
KeptUnits == StrLength(Stored) - StrLength(truncationSuffix)

\* prefixes longer than the kept one that are tried against the limit
MaxLonger == 12

\* C10: add(m) of a message m of more than MAX_EVENT_BYTES bytes stores
\* p + "[TRUNCATED]" for the longest prefix p of m (in code units, as
\* substring cuts) with byteLength(p + "[TRUNCATED]") <= MAX_EVENT_BYTES: it
\* ends with the marker, is at most MAX_EVENT_BYTES bytes, is shorter in
\* bytes than m, and no longer prefix fits.
C10_TruncatesToLongestPrefix ==
    (op = "add" /\ EncodeLength(arg) > 1048576 - 26) =>
        /\ Len(queue) = 1
        /\ queue[1].n = 1
        /\ EndsWith(Stored, truncationSuffix)
        /\ KeptUnits \in 0..StrLength(arg)
        /\ Stored = Concat(Substring(arg, KeptUnits), truncationSuffix)
        /\ EncodeLength(Stored) <= 1048576 - 26
        /\ EncodeLength(Stored) < EncodeLength(arg)
        /\ \A j \in (KeptUnits + 1)..Min(KeptUnits + MaxLonger, StrLength(arg)) :
               EncodeLength(Concat(Substring(arg, j), truncationSuffix)) > 1048576 - 26

\* an oversized message of emoji was cut inside a surrogate pair and stored
\* at exactly the limit
C10_Witness ==
    /\ op = "add"
    /\ EncodeLength(arg) > 1048576 - 26
    /\ HasChar(arg, "E4")
    /\ HasChar(Stored, "HI")
    /\ EncodeLength(Stored) = 1048576 - 26

\* the ordinals of the events of a queue value or batch
Ids(q) == UNION {q[k].first..(q[k].first + q[k].n - 1) : k \in 1..Len(q)}

Flushes == 1..Len(flush)
CallIndexes == 1..Len(remoteCalls)
Puts == {k \in CallIndexes : remoteCalls[k].kind = "put"}

\* the invocations whose body is running: between the grant of the lock and
\* its release
InBody(i) == flush[i].pc \in {"describe", "create", "resolved", "send", "exit"}

\* C4: at most one flush cycle body executes at any time, and it is the one
\* that holds the flush lock; an invocation made while another runs waits.
C4_OneFlushAtATime ==
    /\ \A i, j \in Flushes : (InBody(i) /\ InBody(j)) => i = j
    /\ \A i \in Flushes : InBody(i) <=> lock = i
    /\ \A i \in Flushes : flush[i].pc = "waiting" =>
          (lock # 0 /\ lock # i /\ \E k \in 1..Len(waitQ) : waitQ[k] = i)

\* the flush of close() waits while a flush started by a tick awaits its
\* submit call
C4_Witness ==
    \E i, j \in Flushes :
        /\ flush[i].by = "timer"
        /\ flush[i].pc = "send"
        /\ flush[j].by = "close"
        /\ flush[j].pc = "waiting"
        /\ queue # <<>>

\* C5: every event is in at most one submit call, whatever its outcome, and
\* an event that getNextBatch handed out is never in the queue again.
C5_AtMostOnce ==
    /\ \A k, l \in Puts :
          k # l => Ids(remoteCalls[k].batch) \cap Ids(remoteCalls[l].batch) = {}
    /\ \A k \in Puts :
          /\ Cardinality(Ids(remoteCalls[k].batch)) = QSize(remoteCalls[k].batch)
          /\ Ids(remoteCalls[k].batch) \cap Ids(queue) = {}
    /\ \A i \in Flushes : Ids(flush[i].batch) \cap Ids(queue) = {}

\* a submit call failed, its events are gone, and a later cycle has submitted
\* other events
C5_Witness ==
    \E k, l \in Puts :
        /\ k < l
        /\ remoteCalls[k].result = "failed"
        /\ remoteCalls[l].result = "ok"
        /\ remoteCalls[k].cycle # remoteCalls[l].cycle
        /\ queue = <<>>

\* the failure of the call in flight of invocation i, as a step
FailureStep(i) ==
    /\ i \in Flushes
    /\ flush[i].pc \in {"describe", "create", "send"}
    /\ remoteCalls'[Len(remoteCalls)].result = "failed"

\* the calls made by invocation i
CallsOf(i) == {k \in CallIndexes : remoteCalls[k].cycle = i}

\* C6: when a name resolution or submit call fails in a flush cycle, the
\* error is logged and does not leave #flush, the cycle makes no further
\* call, the queue is left as it is, and the lock is released.
C6_FailureAbortsCycle ==
    /\ [][\A i \in 1..MaxInputs : FailureStep(i) =>
             /\ queue' = queue
             /\ flushErrors' = flushErrors + 1
             /\ Len(remoteCalls') = Len(remoteCalls)
             /\ flush'[i].pc = "exit"
             /\ flush'[i].failed
             /\ ~flush'[i].thrown]_vars
    /\ [](\A i \in Flushes :
             /\ ~flush[i].thrown
             /\ flush[i].failed =>
                  /\ flush[i].pc \in {"exit", "done"}
                  /\ flush[i].pc = "exit" => lock = i
                  /\ flush[i].pc = "done" => lock # i
                  /\ \A k \in CallsOf(i) : remoteCalls[k].result # "pending"
                  /\ \A k \in CallsOf(i) :
                        remoteCalls[k].result = "failed" =>
                            \A l \in CallsOf(i) : l <= k)
    /\ [][\A i \in 1..MaxInputs :
             (i \in Flushes /\ flush[i].failed) =>
                 (CallsOf(i))' = CallsOf(i)]_vars

\* a cycle that had more to drain was aborted by a failure, has released the
\* lock, and the events it had not taken are still in the queue
C6_Witness ==
    \E i \in Flushes :
        /\ flush[i].failed
        /\ flush[i].remaining
        /\ flush[i].pc = "done"
        /\ lock = 0
        /\ queue # <<>>
        /\ flushErrors = 1

\* the events in submit calls made by the invocations in the set c
SubmittedBy(c) ==
    UNION {Ids(remoteCalls[k].batch) : k \in {l \in Puts : remoteCalls[l].cycle \in c}}

\* no remote call has failed since invocation i was made
NoFailureSince(i) == flushErrors = flush[i].errs

\* the parts of C7 that do not say which cycle submits the events: close()
\* cancels the timer, no tick starts a flush after it, and the client is
\* destroyed only after the flush of that close() has finished
CloseOrder ==
    \A i \in Flushes : flush[i].by = "close" =>
        /\ timer = "cleared"
        /\ \A j \in Flushes : flush[j].by = "timer" => j < i
        /\ flush[i].closed => flush[i].pc = "done"
        /\ \A k \in CallsOf(i) : ~remoteCalls[k].destroyed \/ Closes > 1
        /\ (destroyed /\ Closes = 1) => flush[i].closed

\* C7 as amended: close() cancels the timer, and when its flush cycle has
\* finished with no remote failure since close() was called, every event that
\* was queued when close() was called has been submitted, by that cycle or
\* by a flush cycle started earlier that was still running or waiting for
\* the lock when close() was called; the client is destroyed only after the
\* flush cycle of close() has finished.
C7_CloseDrainsThenDestroys ==
    /\ CloseOrder
    /\ \A i \in Flushes :
          (flush[i].by = "close" /\ flush[i].pc = "done" /\ NoFailureSince(i)) =>
              (flush[i].lo..flush[i].hi) \subseteq SubmittedBy(1..i)

\* C7 as stated: the final flush cycle itself submits every event that was
\* queued when close() was called.
C7_FinalCycleSubmitsAll ==
    \A i \in Flushes :
        (flush[i].by = "close" /\ flush[i].pc = "done" /\ NoFailureSince(i)) =>
            (flush[i].lo..flush[i].hi) \subseteq SubmittedBy({i})

\* close() found two events queued, its flush submitted them in two calls,
\* and the client was destroyed after it
C7_Witness ==
    \E i \in Flushes :
        /\ flush[i].by = "close"
        /\ flush[i].closed
        /\ destroyed
        /\ flushErrors = 0
        /\ flush[i].hi = flush[i].lo + 1
        /\ Cardinality(CallsOf(i) \cap Puts) = 2
        /\ (flush[i].lo..flush[i].hi) \subseteq SubmittedBy({i})

\* the stream names that remote calls were made for
CalledStreams == {remoteCalls[k].stream : k \in CallIndexes}

CallsFor(kinds, results, name) ==
    {k \in CallIndexes : /\ remoteCalls[k].kind \in kinds
                         /\ remoteCalls[k].result \in results
                         /\ remoteCalls[k].stream = name}

AnyResult == {"pending", "ok", "found", "absent", "failed"}

\* C8 as stated: for each name at most one existence check and at most one
\* creation call are ever made.
C8_OneCheckOneCreate ==
    \A name \in CalledStreams :
        /\ Cardinality(CallsFor({"describe"}, AnyResult, name)) <= 1
        /\ Cardinality(CallsFor({"create"}, AnyResult, name)) <= 1

\* C8 as amended: an existence check or a creation call for a name is made
\* again only after an existence check or creation call for that name has
\* failed: their numbers are at most one more than the number of those
\* failures, at most one creation call succeeds, and once the name is cached
\* no further one is made.
C8_OneCheckOneCreateBarFailures ==
    /\ \A name \in CalledStreams :
          LET failures ==
                Cardinality(CallsFor({"describe", "create"}, {"failed"}, name))
          IN /\ Cardinality(CallsFor({"describe"}, AnyResult, name)) <= 1 + failures
             /\ Cardinality(CallsFor({"create"}, AnyResult, name)) <= 1 + failures
             /\ Cardinality(CallsFor({"create"}, {"ok"}, name)) <= 1
    /\ \A name \in checkedStreams :
          CallsFor({"describe", "create"}, {"pending"}, name) = {}
    /\ \A k \in CallIndexes :
          (remoteCalls[k].kind = "create" /\ remoteCalls[k].result = "ok") =>
              \A l \in CallsFor({"describe", "create"}, AnyResult, remoteCalls[k].stream) :
                  l <= k
    /\ \A k \in CallIndexes :
          (remoteCalls[k].kind = "describe" /\ remoteCalls[k].result = "found") =>
              \A l \in CallsFor({"describe", "create"}, AnyResult, remoteCalls[k].stream) :
                  l <= k

\* a name was checked once, created once, and two flush cycles have
\* submitted to it
C8_Witness ==
    \E name \in checkedStreams :
        /\ Cardinality(CallsFor({"describe"}, AnyResult, name)) = 1
        /\ Cardinality(CallsFor({"create"}, {"ok"}, name)) = 1
        /\ \E k, l \in CallsFor({"put"}, AnyResult, name) :
              remoteCalls[k].cycle # remoteCalls[l].cycle

\* the failure of an existence check or of a creation call, as a step
ResolutionFailureStep(i) ==
    /\ FailureStep(i)
    /\ flush[i].pc \in {"describe", "create"}

\* C9: a failed existence check or creation call aborts the resolution (the
\* error reaches the flush cycle, which submits nothing) and does not cache
\* the name, so the next resolution of the name checks again; a name is
\* cached only if a check found it or a creation call for it succeeded; a
\* cached name is never removed.
C9_FailedResolutionNotCached ==
    /\ [][checkedStreams \subseteq checkedStreams']_vars
    /\ [][\A i \in 1..MaxInputs : ResolutionFailureStep(i) =>
             /\ checkedStreams' = checkedStreams
             /\ flush[i].stream \notin checkedStreams'
             /\ flush'[i].failed
             /\ flush'[i].pc = "exit"]_vars
    /\ [](\A name \in checkedStreams :
             \/ CallsFor({"describe"}, {"found"}, name) # {}
             \/ CallsFor({"create"}, {"ok"}, name) # {})
    /\ [](\A k \in Puts :
             /\ remoteCalls[k].stream \in checkedStreams
             /\ \E l \in 1..(k - 1) :
                   /\ remoteCalls[l].stream = remoteCalls[k].stream
                   /\ \/ remoteCalls[l].kind = "describe" /\ remoteCalls[l].result = "found"
                      \/ remoteCalls[l].kind = "create" /\ remoteCalls[l].result = "ok")
    /\ [](\A name \in CalledStreams :
             LET resolving == CallsFor({"describe", "create"}, AnyResult, name)
             IN (\E k \in resolving :
                    /\ remoteCalls[k].result = "failed"
                    /\ \A l \in resolving : l <= k) => name \notin checkedStreams)
    /\ [][\A k \in 1..Len(remoteCalls') :
             (/\ k > Len(remoteCalls)
              /\ remoteCalls'[k].kind = "put"
              /\ remoteCalls'[k].stream \notin checkedStreams) =>
                 /\ k > 1
                 /\ remoteCalls'[k - 1].stream = remoteCalls'[k].stream
                 /\ remoteCalls'[k - 1].result \in {"found", "ok"}
                 /\ remoteCalls'[k - 1].kind \in {"describe", "create"}]_vars

\* the existence check of a name failed, a later flush cycle checked it
\* again, created the stream and cached the name
C9_Witness ==
    \E name \in checkedStreams :
        /\ CallsFor({"describe"}, {"failed"}, name) # {}
        /\ CallsFor({"describe"}, {"absent"}, name) # {}
        /\ CallsFor({"create"}, {"ok"}, name) # {}
        /\ CallsFor({"put"}, {"ok"}, name) # {}

-----------------------------------------------------------------------------
(* C11: messages within the per-event limit                                *)

\* C11: add(m) of a message m of at most MAX_EVENT_BYTES bytes (exactly
\* MAX_EVENT_BYTES and the empty message included) appends exactly one event
\* whose message is m itself: the same code units, the same bytes, and no
\* marker that m did not already end with.
C11_WithinLimitStoredVerbatim ==
    (op = "add" /\ EncodeLength(arg) <= 1048576 - 26) =>
        /\ Len(queue) = 1
        /\ queue[1].n = 1
        /\ QSize(queue) = 1
        /\ Stored = arg
        /\ StrLength(Stored) = StrLength(arg)
        /\ EncodeLength(Stored) = EncodeLength(arg)
        /\ EndsWith(Stored, truncationSuffix) <=> EndsWith(arg, truncationSuffix)

\* a message of multi-byte characters of exactly MAX_EVENT_BYTES bytes was
\* added and stored as it was
C11_Witness ==
    /\ op = "add"
    /\ EncodeLength(arg) = 1048576 - 26
    /\ HasChar(arg, "L2")
    /\ ~EndsWith(arg, truncationSuffix)
    /\ Stored = arg
    /\ ~EndsWith(Stored, truncationSuffix)

\* the empty message was added and stored as the empty message
C11_WitnessEmpty ==
    /\ op = "add"
    /\ arg = <<>>
    /\ Len(queue) = 1
    /\ Stored = <<>>

-----------------------------------------------------------------------------
(* C12: three messages of 0.5 MiB                                          *)

\* the queue held exactly three events of 524,288 bytes after the last add
ThreeHalves ==
    /\ QSize(snapshot) = 3
    /\ \A k \in 1..Len(snapshot) : snapshot[k].message = Half

\* what the getNextBatch calls since the last add returned before the last one
DrainedBefore == QTake(drained, QSize(drained) - QSize(ret.batch))

\* the batches getNextBatch returns for the queue after the last add
FirstOfSnapshot == getNextBatch(snapshot)
SecondOfSnapshot == getNextBatch(FirstOfSnapshot.queue)

\* the last operation was the first, second, third getNextBatch call since
\* the last add
FirstCall == op = "getNextBatch" /\ DrainedBefore = <<>>
SecondCall == op = "getNextBatch" /\ DrainedBefore = FirstOfSnapshot.batch
ThirdCall ==
    /\ op = "getNextBatch"
    /\ DrainedBefore = QConcat(FirstOfSnapshot.batch, SecondOfSnapshot.batch)

\* C12 as stated: with three messages of 524,288 bytes in the queue, the
\* first getNextBatch returns 2 messages and hasMore = true, the second
\* returns 1 message and hasMore = false.
C12_TwoThenOne ==
    ThreeHalves =>
        /\ FirstCall => (QSize(ret.batch) = 2 /\ ret.hasMore)
        /\ SecondCall => (QSize(ret.batch) = 1 /\ ~ret.hasMore)

\* C12: with three messages of 524,288 bytes in the queue, each event
\* counts 524,288 + 26 bytes and two of them exceed 1,048,576: the first
\* getNextBatch returns 1 message and hasMore = true, the second returns 1
\* message and hasMore = true, the third returns 1 message and
\* hasMore = false.
C12_OneAtATime ==
    ThreeHalves =>
        /\ FirstCall => (QSize(ret.batch) = 1 /\ ret.hasMore /\ QSize(queue) = 2)
        /\ SecondCall => (QSize(ret.batch) = 1 /\ ret.hasMore /\ QSize(queue) = 1)
        /\ ThirdCall => (QSize(ret.batch) = 1 /\ ~ret.hasMore /\ queue = <<>>)
        /\ op = "getNextBatch" => (FirstCall \/ SecondCall \/ ThirdCall \/ queue = <<>>)

\* three messages of 524,288 bytes were added to an empty queue and the
\* third getNextBatch has returned the last of them
C12_Witness ==
    /\ ThreeHalves
    /\ calls = 3
    /\ ThirdCall
    /\ ~FirstCall
    /\ ~SecondCall
    /\ QSize(ret.batch) = 1
    /\ drained = snapshot
    /\ queue = <<>>

-----------------------------------------------------------------------------
(* C13: create and log make no remote call                                 *)

\* C13: a create() or log() step issues no remote call, answers none, starts
\* no flush and touches neither the lock nor its waiters; log() can run
\* whatever call is in flight; every remote call belongs to a #flush
\* invocation made by the timer or by close(), so no call exists before the
\* first of them.
C13_CallsOnlyInFlushCycles ==
    /\ [][(inst' # inst \/ calls' # calls) =>
             /\ remoteCalls' = remoteCalls
             /\ flush' = flush
             /\ lock' = lock
             /\ waitQ' = waitQ]_vars
    /\ [](Len(flush) = 0 => remoteCalls = <<>>)
    /\ [](\A k \in 1..Len(remoteCalls) :
             /\ remoteCalls[k].cycle \in 1..Len(flush)
             /\ flush[remoteCalls[k].cycle].by \in {"timer", "close"})
    /\ []((inst = "live" /\ Inputs < MaxInputs) =>
             \A info \in Infos : ENABLED Log(info))

\* after create() and several log() calls, before any tick or close(), the
\* events are queued and no remote call has been made
C13_Witness ==
    /\ inst = "live"
    /\ calls >= 3
    /\ QSize(queue) = calls
    /\ Len(flush) = 0
    /\ remoteCalls = <<>>

-----------------------------------------------------------------------------
(* C14: log always acknowledges                                            *)

\* log() calls whose try block raised: they queued nothing
FailedLogs == calls - (nextId - 1)

\* C14: every log() call invokes its callback exactly once and returns,
\* whether the record is a string, an object with the Symbol message, an
\* object with a message field, an object with neither, or a value that
\* makes the extraction or the queueing raise; a call that raises queues
\* nothing, the others queue one event.
C14_LogAlwaysAcknowledges ==
    /\ [](acks = calls)
    /\ [][calls' # calls =>
             /\ calls' = calls + 1
             /\ acks' = acks + 1
             /\ \/ nextId' = nextId + 1 /\ QSize(queue') = QSize(queue) + 1
                \/ nextId' = nextId /\ queue' = queue]_vars
    /\ []((inst = "live" /\ Inputs < MaxInputs) =>
             \A info \in Infos :
                 ENABLED (Log(info) /\ acks' = acks + 1
                          /\ (tryThrows(info) <=> queue' = queue)))

\* log() calls that queued their message and log() calls that raised have
\* all been acknowledged
C14_Witness ==
    /\ acks = calls
    /\ FailedLogs >= 2
    /\ nextId - 1 >= 2

-----------------------------------------------------------------------------
(* C15: construction with an empty log group name                          *)

\* C15: create() with an empty log group name (or one of blanks only) can
\* only fail; a failed construction leaves no instance, no timer, no #flush
\* invocation and no remote call, now or later; an instance that exists has
\* a log group name that is not empty.
C15_EmptyGroupFailsConstruction ==
    /\ [](inst = "none" =>
             \A group \in {g \in Groups : Trim(g) = <<>>} : \A prefix \in Prefixes :
                 /\ ENABLED (Create(group, prefix) /\ inst' = "failed")
                 /\ ~ENABLED (Create(group, prefix) /\ inst' # "failed"))
    /\ [](inst = "live" => (opts.logGroupName # <<>> /\ Trim(opts.logGroupName) # <<>>))
    /\ [](inst = "failed" =>
             /\ timer = "none"
             /\ opts = NoOpts
             /\ flush = <<>>
             /\ lock = 0
             /\ remoteCalls = <<>>
             /\ calls = 0
             /\ queue = <<>>)
    /\ [][inst = "failed" => inst' = "failed"]_vars

\* construction has failed, time has passed, and there is no timer and no
\* remote call
C15_Witness ==
    /\ inst = "failed"
    /\ now > StartTime + 1
    /\ timer = "none"
    /\ remoteCalls = <<>>

-----------------------------------------------------------------------------
(* C16: one stream name per UTC hour                                       *)

HourOf(t) == t \div 3600000

\* the name of the hour of instant t of January 2025, written out
JanuaryName(prefix, t) ==
    (IF prefix = "" THEN "" ELSE prefix \o "-") \o "2025-01-"
    \o Pad2(1 + (t \div 86400000)) \o "-" \o Pad2(HourOf(t) % 24) \o "-UTC"

SameHour(i, j) == HourOf(resolutions[i].at) = HourOf(resolutions[j].at)

\* the check of call k has succeeded: the name is cached
Checked(k) == resolutions[k].pc = "return" \/ resolutions[k].ok

\* C16: the name getCurrentLogStreamName returns is made of the prefix and
\* the UTC year, month, day and hour of the call and of nothing else; two
\* calls in the same UTC hour get the same name, two calls in different UTC
\* hours get different names; a second call of a UTC hour, made after a
\* first one has returned the name, sends no DescribeLogStreams and no
\* CreateLogStream; and a call sends none only when the check of an earlier
\* call of the same UTC hour has succeeded.
C16_OneNamePerHour ==
    \A i \in 1..Len(resolutions) :
        /\ resolutions[i].name = JanuaryName(opts.logStreamNamePrefix, resolutions[i].at)
        /\ \A j \in 1..Len(resolutions) :
              /\ SameHour(i, j) <=> (resolutions[i].name = resolutions[j].name)
              /\ (/\ i \in resolutions[j].before
                  /\ resolutions[i].ok
                  /\ SameHour(i, j)) =>
                    /\ resolutions[j].calls = 0
                    /\ resolutions[j].pc \in {"return", "done"}
                    /\ resolutions[j].pc = "done" => resolutions[j].ok
              /\ (resolutions[j].calls = 0) =>
                    \E k \in 1..(j - 1) : Checked(k) /\ SameHour(k, j)

\* the name was resolved with a check at the beginning of an hour and
\* again, without one, a millisecond later
C16_Witness ==
    /\ Len(resolutions) = 2
    /\ Returned = {1, 2}
    /\ resolutions[1].ok
    /\ resolutions[1].calls > 0
    /\ resolutions[2].before = {1}
    /\ resolutions[2].at > resolutions[1].at
    /\ SameHour(1, 2)
    /\ resolutions[2].name = resolutions[1].name
    /\ resolutions[2].ok
    /\ resolutions[2].calls = 0
    /\ remoteCalls[Len(remoteCalls)].cycle = 1

\* the name was resolved at the same hour of two days, and at two hours of
\* one day, with a check each time and another name
C16_WitnessHours ==
    /\ Len(resolutions) = 2
    /\ Returned = {1, 2}
    /\ resolutions[1].ok
    /\ resolutions[2].ok
    /\ resolutions[2].calls > 0
    /\ resolutions[2].name # resolutions[1].name
    /\ \/ HourOf(resolutions[2].at) = HourOf(resolutions[1].at) + 24
       \/ /\ HourOf(resolutions[2].at) = HourOf(resolutions[1].at) + 1
          /\ resolutions[2].at \div 86400000 = resolutions[1].at \div 86400000

\* a check failed, and the next call of the same hour checked again and
\* returned the name
C16_WitnessRetry ==
    /\ Len(resolutions) = 2
    /\ Returned = {1, 2}
    /\ ~resolutions[1].ok
    /\ resolutions[2].before = {1}
    /\ SameHour(1, 2)
    /\ resolutions[2].ok
    /\ resolutions[2].calls > 0

\* two calls of the same hour overlapped, as #flush never lets them: the
\* second was made while DescribeLogStreams of the first was in flight,
\* both sent the check and CreateLogStream, and both returned the name
C16_WitnessOverlap ==
    /\ Len(resolutions) = 2
    /\ Returned = {1, 2}
    /\ resolutions[2].before = {}
    /\ SameHour(1, 2)
    /\ resolutions[1].ok
    /\ resolutions[2].ok
    /\ resolutions[1].calls = 2
    /\ resolutions[2].calls = 2

\* a call found the name cached while the call that cached it had not
\* returned yet
C16_WitnessCachedEarly ==
    /\ Len(resolutions) = 2
    /\ resolutions[1].pc = "return"
    /\ resolutions[2].pc = "return"
    /\ resolutions[2].calls = 0

-----------------------------------------------------------------------------
(* C17: a batch is the longest prefix within the limits                    *)

\* bytes of the first event of a queue value, overhead included
FirstBytes(q) == EncodeLength(q[1].message) + 26

\* C17: a getNextBatch call splits the queue into the batch and the queue
\* it leaves, in order; the batch is within 1,048,576 bytes and 10,000
\* events, and the first event left would take it over one of the two;
\* hasMore tells whether events are left; on an empty queue the batch is
\* empty and hasMore false; on a non-empty queue the batch is not empty.
C17_LongestPrefix ==
    [][op' = "getNextBatch" =>
         /\ QConcat(ret'.batch, queue') = queue
         /\ QSize(ret'.batch) + QSize(queue') = QSize(queue)
         /\ BatchBytes(ret'.batch) <= 1048576
         /\ QSize(ret'.batch) <= 10000
         /\ queue' # <<>> =>
               \/ BatchBytes(ret'.batch) + FirstBytes(queue') > 1048576
               \/ QSize(ret'.batch) + 1 > 10000
         /\ ret'.hasMore <=> (queue' # <<>>)
         /\ queue = <<>> => (ret'.batch = <<>> /\ ~ret'.hasMore /\ queue' = <<>>)
         /\ queue # <<>> => ret'.batch # <<>>]_vars

\* C17, the example: with 10,001 small messages in the queue the first
\* getNextBatch returns 10,000 of them with hasMore = true and leaves 1.
C17_TenThousandAndOne ==
    (/\ FirstCall
     /\ QSize(snapshot) = 10001
     /\ \A k \in 1..Len(snapshot) : snapshot[k].message = Small) =>
        /\ QSize(ret.batch) = 10000
        /\ ret.hasMore
        /\ QSize(queue) = 1

\* C17: both parts
C17_BatchIsLongestPrefix == C17_LongestPrefix /\ []C17_TenThousandAndOne

\* a batch of messages of two sizes stopped at the byte limit with room for
\* more events, and the event that did not fit is still queued
C17_Witness ==
    /\ op = "getNextBatch"
    /\ Len(ret.batch) >= 2
    /\ QSize(ret.batch) < 10000
    /\ queue # <<>>
    /\ ret.hasMore
    /\ BatchBytes(ret.batch) + FirstBytes(queue) > 1048576
    /\ QConcat(ret.batch, queue) = snapshot

\* 10,001 small messages gave a batch of 10,000 and left one
C17_WitnessCount ==
    /\ FirstCall
    /\ QSize(snapshot) = 10001
    /\ QSize(ret.batch) = 10000
    /\ QSize(queue) = 1
    /\ ret.hasMore

-----------------------------------------------------------------------------
(* C18: what a flush cycle that did not fail leaves in the queue           *)

\* invocation i releases the lock in this step, no call of it having failed
ReleasesUnfailed(i) ==
    /\ i \in Flushes
    /\ flush[i].pc = "exit"
    /\ flush'[i].pc = "done"
    /\ ~flush[i].failed

\* C18 as stated: when a flush cycle ends without a failed remote call, the
\* queue is empty at the moment the cycle releases the lock.
C18_EmptyAtRelease ==
    [][\A i \in 1..MaxInputs : ReleasesUnfailed(i) => queue = <<>>]_vars

\* C18: a flush cycle takes batches until a getNextBatch call leaves the
\* queue empty or a remote call fails.  When it ends without a failed call,
\* its last getNextBatch call left the queue empty, the cycle has submitted
\* with success every event from the first one it took to the last one
\* created before that call, and the events in the queue when the lock is
\* released are those logged after that call.
C18_DrainsWhatItSaw ==
    [][\A i \in 1..MaxInputs : ReleasesUnfailed(i) =>
         /\ ~flush[i].remaining
         /\ flush[i].seen >= 1
         /\ queue # <<>> => queue[1].first >= flush[i].seen
         /\ Ids(queue) = flush[i].seen..(nextId - 1)
         /\ \A e \in SubmittedBy({i}) :
               e..(flush[i].seen - 1) \subseteq SubmittedBy({i})
         /\ \A k \in CallsOf(i) : remoteCalls[k].result \in {"ok", "found", "absent"}]_vars

\* a cycle whose only submit call succeeded is about to release the lock,
\* and an event logged while that call was in flight is still queued
C18_Witness ==
    \E i \in Flushes :
        /\ flush[i].pc = "exit"
        /\ lock = i
        /\ ~flush[i].failed
        /\ flushErrors = 0
        /\ \E k \in CallsOf(i) : remoteCalls[k].kind = "put" /\ remoteCalls[k].result = "ok"
        /\ queue # <<>>
        /\ queue[1].first >= flush[i].seen

-----------------------------------------------------------------------------
(* C19: one remote call at a time, name resolution under the lock          *)

\* the calls that have not been answered
InFlight == {k \in CallIndexes : remoteCalls[k].result = "pending"}

\* the calls issued in this step
Issued == (Len(remoteCalls) + 1)..Len(remoteCalls')

\* invocation i calls getCurrentLogStreamName in this step: from the top
\* of the loop it enters the await of the existence check or, for a cached
\* name, the await that is resolved already
Resolves(i) ==
    /\ i \in 1..Len(flush')
    /\ flush'[i].pc \in {"describe", "resolved"}
    /\ (i \in Flushes => flush[i].pc \in {"waiting", "send"})

\* C19: at most one remote call (existence check, creation or submission)
\* is in flight at any time; it is the last call issued and belongs to the
\* invocation that holds the flush lock; a call is issued only when every
\* earlier call has been answered, by the holder of the lock; and every
\* getCurrentLogStreamName call, with its reads and writes of the existence
\* cache, is made by the holder of the lock.
C19_OneCallAtATime ==
    /\ [](/\ Cardinality(InFlight) <= 1
          /\ \A k \in InFlight :
                /\ k = Len(remoteCalls)
                /\ lock = remoteCalls[k].cycle
                /\ flush[lock].pc =
                      (IF remoteCalls[k].kind = "put" THEN "send" ELSE remoteCalls[k].kind))
    /\ [][\A k \in Issued :
             /\ remoteCalls'[k].cycle = lock'
             /\ \A l \in 1..(k - 1) : remoteCalls'[l].result # "pending"]_vars
    /\ [][\A i \in 1..MaxInputs : Resolves(i) => lock' = i]_vars
    /\ [][checkedStreams' # checkedStreams =>
             /\ lock # 0
             /\ lock' = lock
             /\ checkedStreams' = checkedStreams \cup {flush[lock].stream}]_vars

\* a submit call is in flight while two more #flush invocations wait for
\* the lock, and calls were answered before it
C19_Witness ==
    /\ Cardinality(InFlight) = 1
    /\ Len(remoteCalls) >= 2
    /\ remoteCalls[Len(remoteCalls)].kind = "put"
    /\ remoteCalls[Len(remoteCalls)].result = "pending"
    /\ Len(waitQ) >= 2
    /\ lock # 0
    /\ queue # <<>>

-----------------------------------------------------------------------------
(* C20: the schedule survives a failed cycle                               *)

\* the events passed to a PutLogEvents call so far
Submitted == SubmittedBy(Flushes)

\* event e was in the batch of a cycle that a failed remote call aborted
TakenByFailedCycle(e) ==
    \E i \in Flushes : flush[i].failed /\ e \in Ids(flush[i].batch)

\* C20: a failed remote call leaves the timer running and the queue as it
\* is, and with the timer firing and no close() every event that is in the
\* queue, be it left there by an aborted cycle or logged later, is
\* eventually passed to a PutLogEvents call, unless the cycle that takes it
\* is aborted by yet another failed call.
C20_RetriedByLaterTicks ==
    /\ [][flushErrors' # flushErrors => (timer' = timer /\ queue' = queue)]_vars
    /\ \A e \in 1..MaxInputs :
          (e \in Ids(queue)) ~> (e \in Submitted \/ TakenByFailedCycle(e))

\* a cycle failed while events it had not taken were in the queue, and a
\* later cycle started by the timer has passed one of them to PutLogEvents
C20_Witness ==
    \E i \in Flushes : \E j \in Flushes : \E e \in 1..MaxInputs :
        /\ i < j
        /\ flush[i].failed
        /\ flush[i].remaining
        /\ e < flush[i].seen
        /\ e \notin Ids(flush[i].batch)
        /\ flush[j].by = "timer"
        /\ e \in SubmittedBy({j})
        /\ timer = "running"

-----------------------------------------------------------------------------
(* C22: events are submitted in the order they were logged                 *)

\* the runs of a queue value or batch hold ascending ordinals
Ascending(q) ==
    \A k \in 1..(Len(q) - 1) : q[k].first + q[k].n <= q[k + 1].first

\* C22: the events of a PutLogEvents call are in the order they were
\* logged, and every event of a call was logged before every event of a
\* later call, whichever cycles made the calls and whatever calls failed in
\* between; the queue keeps that order as well.
C22_FifoAcrossCalls ==
    /\ Ascending(queue)
    /\ \A k \in Puts :
          /\ Ascending(remoteCalls[k].batch)
          /\ \A a \in Ids(remoteCalls[k].batch) : \A b \in Ids(queue) : a < b
    /\ \A k1 \in Puts : \A k2 \in Puts :
          k1 < k2 =>
              \A a \in Ids(remoteCalls[k1].batch) :
                  \A b \in Ids(remoteCalls[k2].batch) : a < b

\* a call of one cycle failed and aborted the cycle, and a call of a later
\* cycle has submitted an event that was logged after the events of the
\* failed call
C22_Witness ==
    \E k1 \in Puts : \E k2 \in Puts :
        /\ k1 < k2
        /\ remoteCalls[k1].result = "failed"
        /\ remoteCalls[k1].cycle # remoteCalls[k2].cycle
        /\ remoteCalls[k2].result = "ok"
        /\ \A a \in Ids(remoteCalls[k1].batch) :
              \A b \in Ids(remoteCalls[k2].batch) : a < b

-----------------------------------------------------------------------------
(* C23: a single close() leaves nothing running behind it                  *)

\* the calls and the flush cycles that the step adds
NewCalls == (Len(remoteCalls) + 1)..Len(remoteCalls')
NewFlushes == (Len(flush) + 1)..Len(flush')

\* C23: as long as close() has been called at most once, no remote call is
\* issued on a destroyed client: once close() has cancelled the timer no tick
\* fires and no step starts a timer cycle, every timer cycle has finished
\* when the client is destroyed, and after the client is destroyed no call
\* is issued or answered, no cycle runs and no event leaves the queue, so
\* the events logged from then on stay in the queue.
C23_NothingAfterDestroy ==
    [][Closes' <= 1 =>
          /\ \A k \in NewCalls : ~remoteCalls'[k].destroyed
          /\ timer = "cleared" =>
                /\ ~ENABLED Tick
                /\ \A j \in NewFlushes : flush'[j].by # "timer"
                /\ timer' = "cleared"
          /\ destroyed' =>
                /\ \A j \in 1..Len(flush') : flush'[j].pc = "done"
                /\ lock' = 0
                /\ \A k \in 1..Len(remoteCalls') :
                      remoteCalls'[k].result # "pending"
          /\ destroyed =>
                /\ remoteCalls' = remoteCalls
                /\ flush' = flush
                /\ Ids(queue) \subseteq Ids(queue')
                /\ destroyed']_vars

\* close() was called once while a timer cycle held the lock; that cycle
\* and the cycle of close() have submitted events and finished, the client
\* is destroyed, and an event logged after the last look of close() at the
\* queue is still queued and in no call
C23_Witness ==
    /\ Closes = 1
    /\ destroyed
    /\ \E i \in Flushes : \E j \in Flushes :
          /\ flush[i].by = "close"
          /\ flush[j].by = "timer"
          /\ flush[i].lo <= flush[i].hi
          /\ \E k \in CallsOf(j) : remoteCalls[k].kind = "put"
          /\ \E k \in CallsOf(i) : remoteCalls[k].kind = "put"
          /\ \E e \in Ids(queue) :
                /\ e >= flush[i].seen
                /\ e \notin Submitted

-----------------------------------------------------------------------------
(* C24: close() with a failing final cycle                                 *)

\* the flush cycle of a close() has been aborted by a failed remote call
AbortedClose(i) ==
    /\ i \in Flushes
    /\ flush[i].by = "close"
    /\ flush[i].failed

\* C24: the flush of close() never rejects, so when its cycle is over,
\* failed or not, close() goes on to destroy the client; and once a failed
\* call has aborted that cycle, with no further close(), no call is issued
\* any more and no event leaves the queue: what was queued at the abort
\* stays queued and unsubmitted.
C24_CloseSurvivesFailure ==
    [][/\ \A i \in Flushes : flush[i].by = "close" =>
              /\ ~flush[i].thrown
              /\ (flush[i].pc = "done" /\ ~flush[i].closed) =>
                    ENABLED CloseFinish(i)
              /\ flush[i].closed => destroyed
       /\ \A i \in Flushes : (AbortedClose(i) /\ Closes' <= 1) =>
              /\ remoteCalls' = remoteCalls
              /\ Ids(queue) \subseteq Ids(queue')
              /\ Ids(queue) \cap Submitted = {}
              /\ flush[i].pc \in {"exit", "done"}]_vars

\* the first call of the cycle of the only close() failed, close() has
\* completed and destroyed the client, and an event that was queued when
\* close() was called is still queued and in no call
C24_Witness ==
    /\ Closes = 1
    /\ destroyed
    /\ \E i \in Flushes :
          /\ AbortedClose(i)
          /\ flush[i].closed
          /\ \E k \in CallsOf(i) : remoteCalls[k].result = "failed"
          /\ \E e \in Ids(queue) :
                /\ e \in flush[i].lo..flush[i].hi
                /\ e \notin Submitted

-----------------------------------------------------------------------------
(* C21: batchSize changes nothing                                          *)

\* call k of the second instance is call k of the first one, its answer
\* apart while it is pending
SameCall(k) ==
    /\ k <= Len(twin.calls)
    /\ remoteCalls[k].kind = twin.calls[k].kind
    /\ remoteCalls[k].cycle = twin.calls[k].cycle
    /\ remoteCalls[k].stream = twin.calls[k].stream
    /\ remoteCalls[k].batch = twin.calls[k].batch
    /\ remoteCalls[k].destroyed = twin.calls[k].destroyed
    /\ remoteCalls[k].result \in {"pending", twin.calls[k].result}

\* every event logged so far is the small message, and all of them fit in
\* one batch
AllSmall ==
    /\ \A k \in 1..Len(queue) : queue[k].message = Small
    /\ \A i \in Flushes : \A k \in 1..Len(flush[i].batch) :
          flush[i].batch[k].message = Small
    /\ nextId - 1 <= MAX_EVENTS_PER_BATCH
    /\ (nextId - 1) * calculateMessageSize(Small) <= MAX_BATCH_SIZE

PutsOf(i) == {k \in CallsOf(i) : remoteCalls[k].kind = "put"}

\* C21: an instance created with another batchSize and given the same
\* events in the same order accepts each of them and issues the same calls
\* with the same batches, and when it has received them all its calls are
\* those of the first instance; whatever the batchSize, no call is issued
\* before the first flush cycle, however many events are logged, and a cycle
\* submits small events in one call, however many they are.
C21_BatchSizeIgnored ==
    /\ twin.phase = "second" =>
          /\ \A k \in CallIndexes : SameCall(k)
          /\ Performed < Len(twin.events) =>
                \A b \in BatchSizes \ {twin.batchSize} :
                    ENABLED BPerform(twin.events[Performed + 1], b)
          /\ Performed = Len(twin.events) => remoteCalls = twin.calls
          /\ inst = "live" => opts.batchSize # twin.batchSize
    /\ flush = <<>> => remoteCalls = <<>>
    /\ AllSmall => \A i \in Flushes : Cardinality(PutsOf(i)) <= 1

\* the first instance, created without batchSize, was given three small
\* events and then a tick, and submitted the three in one call; the second
\* instance, created with batchSize 2, has been given the same events and
\* has made the same calls
C21_Witness ==
    /\ twin.phase = "second"
    /\ twin.batchSize = <<>>
    /\ inst = "live"
    /\ opts.batchSize = <<2>>
    /\ Performed = Len(twin.events)
    /\ remoteCalls = twin.calls
    /\ Len(twin.events) >= 5
    /\ twin.events[3].kind = "log"
    /\ twin.events[4].kind = "log"
    /\ twin.events[5].kind = "tick"
    /\ \E k \in Puts : QSize(remoteCalls[k].batch) = 3

\* the instance created with batchSize 2 is the first of the two
C21_WitnessFirst ==
    /\ twin.phase = "second"
    /\ twin.batchSize = <<2>>
    /\ opts.batchSize = <<>>
    /\ Performed = Len(twin.events)
    /\ \E k \in 1..Len(twin.calls) :
          /\ twin.calls[k].kind = "put"
          /\ QSize(twin.calls[k].batch) = 3
          /\ remoteCalls[k] = twin.calls[k]

====
